---- MODULE Spec2Model ----
(***************************************************************************)
(* AncestryAtlas: the GEDCOM import pipeline of the server                 *)
(* (routes/events.js, utils/gedcomParser.js, utils/geocoder.js,            *)
(* models/database.js) as a state machine.                                 *)
(*                                                                         *)
(* Text is modelled at character level: a JavaScript string is a sequence  *)
(* of one-character strings, so the regular expressions of the parser and  *)
(* of the place cleaner are computed, not assumed.  The JavaScript value   *)
(* null of a string-valued field is the one-element sequence Null, which   *)
(* no text contains.                                                       *)
(***************************************************************************)
EXTENDS Integers, Sequences, FiniteSets, TLC

VARIABLES
  now,              \* Date.now(), in ms
  cache,            \* geocoder.js: cache, cleaned place -> <<coordinates>> or <<>> for null
  lastRequestTime,  \* geocoder.js: lastRequestTime
  req,              \* the import requests being handled, one per slot
  db,               \* the database tables
  hist,             \* history of the run, read by the properties only
  date,             \* a call of parseDate: its argument and what it returned
  parse,            \* a run of parseGedcomFull: the lines read, its loop variables
  tree              \* a run of a tree builder of the client

vars == <<now, cache, lastRequestTime, req, db, hist, date, parse, tree>>

\* the variables of the import handler and of the geocoder
serverVars == <<now, cache, lastRequestTime, req, db, hist>>

----------------------------------------------------------------------------
(* JavaScript strings *)

Null == <<"null">>

\* JavaScript truthiness of a string-or-null value
Truthy(s) == s # Null /\ s # <<>>

Digits == {"0", "1", "2", "3", "4", "5", "6", "7", "8", "9"}

Lowers == <<"a","b","c","d","e","f","g","h","i","j","k","l","m","n","o","p","q","r","s","t","u","v","w","x","y","z">>

Uppers == <<"A","B","C","D","E","F","G","H","I","J","K","L","M","N","O","P","Q","R","S","T","U","V","W","X","Y","Z">>

IsLower(c) == \E i \in 1..26 : Lowers[i] = c

IsUpper(c) == \E i \in 1..26 : Uppers[i] = c

\* \s of the regular expressions, and what String.prototype.trim removes
IsWs(c) == c \in {" ", "\t"}

\* \w of the regular expressions
IsWord(c) == IsLower(c) \/ IsUpper(c) \/ c \in Digits \/ c = "_"

toLowerCase(c) == IF IsUpper(c) THEN Lowers[CHOOSE i \in 1..26 : Uppers[i] = c] ELSE c

toUpperCase(c) == IF IsLower(c) THEN Uppers[CHOOSE i \in 1..26 : Lowers[i] = c] ELSE c

LowerStr(s) == [i \in 1..Len(s) |-> toLowerCase(s[i])]

\* character classes of the regular expressions: d = \d, w = \w, s = \s, S = \S
InClass(c, cls) ==
  CASE cls = "d" -> c \in Digits
    [] cls = "w" -> IsWord(c)
    [] cls = "s" -> IsWs(c)
    [] cls = "S" -> ~IsWs(c)

MinOf(S) == CHOOSE x \in S : \A y \in S : x <= y

MaxOf(S) == CHOOSE x \in S : \A y \in S : y <= x

\* the last index of the longest run of class cls that starts at index i
\* (i - 1 when the run is empty): what a greedy X* consumes from i
RunEnd(s, i, cls) ==
  LET bad == {k \in i..Len(s) : ~InClass(s[k], cls)}
  IN  IF bad = {} THEN MaxOf({Len(s), i - 1}) ELSE MinOf(bad) - 1

From(s, i) == SubSeq(s, i, Len(s))

\* the literal pat occurs in s at index i
HasAt(s, i, pat) ==
  /\ i >= 1
  /\ i + Len(pat) - 1 <= Len(s)
  /\ \A k \in 1..Len(pat) : s[i + k - 1] = pat[k]

\* the same, ignoring letter case (the i flag)
HasAtCI(s, i, pat) ==
  /\ i >= 1
  /\ i + Len(pat) - 1 <= Len(s)
  /\ \A k \in 1..Len(pat) : toLowerCase(s[i + k - 1]) = toLowerCase(pat[k])

\* String.prototype.trim
Trim(s) ==
  LET keep == {k \in 1..Len(s) : ~IsWs(s[k])}
  IN  IF keep = {} THEN <<>> ELSE SubSeq(s, MinOf(keep), MaxOf(keep))

AllDigits(s) == \A k \in 1..Len(s) : s[k] \in Digits

\* String.prototype.padStart(2, '0')
PadStart2(s) == IF Len(s) < 2 THEN <<"0">> \o s ELSE s

\* parseInt of a run of decimal digits
RECURSIVE ParseInt(_)
ParseInt(s) ==
  IF s = <<>> THEN 0
  ELSE 10 * ParseInt(SubSeq(s, 1, Len(s) - 1))
       + (CHOOSE v \in 0..9 : <<"0","1","2","3","4","5","6","7","8","9">>[v + 1] = s[Len(s)])

----------------------------------------------------------------------------
(* utils/gedcomParser.js: parseDate *)

MONTHS == <<
  <<<<"j","a","n">>, <<"0","1">>>>, <<<<"f","e","b">>, <<"0","2">>>>, <<<<"m","a","r">>, <<"0","3">>>>, <<<<"a","p","r">>, <<"0","4">>>>,
  <<<<"m","a","y">>, <<"0","5">>>>, <<<<"j","u","n">>, <<"0","6">>>>, <<<<"j","u","l">>, <<"0","7">>>>, <<<<"a","u","g">>, <<"0","8">>>>,
  <<<<"s","e","p">>, <<"0","9">>>>, <<<<"o","c","t">>, <<"1","0">>>>, <<<<"n","o","v">>, <<"1","1">>>>, <<<<"d","e","c">>, <<"1","2">>>>,
  <<<<"j","a","n","u","a","r","y">>, <<"0","1">>>>, <<<<"f","e","b","r","u","a","r","y">>, <<"0","2">>>>, <<<<"m","a","r","c","h">>, <<"0","3">>>>,
  <<<<"a","p","r","i","l">>, <<"0","4">>>>, <<<<"j","u","n","e">>, <<"0","6">>>>, <<<<"j","u","l","y">>, <<"0","7">>>>,
  <<<<"a","u","g","u","s","t">>, <<"0","8">>>>, <<<<"s","e","p","t","e","m","b","e","r">>, <<"0","9">>>>, <<<<"o","c","t","o","b","e","r">>, <<"1","0">>>>,
  <<<<"n","o","v","e","m","b","e","r">>, <<"1","1">>>>, <<<<"d","e","c","e","m","b","e","r">>, <<"1","2">>>> >>

\* The properties that MONTHS inherits from Object.prototype under a name
\* that \w+ matches and toLowerCase leaves alone, with what a template
\* literal makes of their values
Inherited == <<
  <<<<"c","o","n","s","t","r","u","c","t","o","r">>, <<"f","u","n","c","t","i","o","n"," ","O","b","j","e","c","t","(",")"," ","{"," ","[","n","a","t","i","v","e"," ","c","o","d","e","]"," ","}">>>>,
  <<<<"_","_","p","r","o","t","o","_","_">>, <<"[","o","b","j","e","c","t"," ","O","b","j","e","c","t","]">>>> >>

\* MONTHS[word.toLowerCase()]: the month number, the value of an inherited
\* property (an object, which is truthy), or Null for undefined
MonthOf(word) ==
  LET hit == {i \in 1..Len(MONTHS \o Inherited) : (MONTHS \o Inherited)[i][1] = LowerStr(word)}
  IN  IF hit = {} THEN Null ELSE (MONTHS \o Inherited)[MinOf(hit)][2]

\* The alternatives of the qualifier expression, in the order the regular
\* expression tries them: <<word, whether an optional dot follows>>
Qualifiers == <<
  <<<<"a","b","t">>, TRUE>>, <<<<"a","b","o","u","t">>, FALSE>>, <<<<"c","i","r","c","a">>, FALSE>>,
  <<<<"b","e","f">>, TRUE>>, <<<<"b","e","f","o","r","e">>, FALSE>>, <<<<"a","f","t">>, TRUE>>,
  <<<<"a","f","t","e","r">>, FALSE>>, <<<<"e","s","t">>, TRUE>>, <<<<"c","a","l">>, TRUE>> >>

\* dateStr.replace(/^(abt\.?|about|...|cal\.?)\s*/i, ''): the first
\* alternative that matches at the start is taken (the rest of the expression,
\* \s*, always matches, so there is no backtracking into the alternation)
StripQualifier(s) ==
  LET hit == {i \in 1..Len(Qualifiers) : HasAtCI(s, 1, Qualifiers[i][1])}
  IN  IF hit = {} THEN s
      ELSE LET q == Qualifiers[MinOf(hit)]
               n == Len(q[1])
               m == IF q[2] /\ HasAt(s, n + 1, <<".">>) THEN n + 1 ELSE n
           IN  From(s, RunEnd(s, m + 1, "s") + 1)

\* /^(\d{1,2})-(\w+)-(\d{4})$/ : <<day, month word, year>> or <<>>
DashMatch(c) ==
  LET d == RunEnd(c, 1, "d")
      w == RunEnd(c, d + 2, "w")
  IN  IF /\ d \in {1, 2}
         /\ HasAt(c, d + 1, <<"-">>)
         /\ w >= d + 2
         /\ HasAt(c, w + 1, <<"-">>)
         /\ Len(c) = w + 5
         /\ AllDigits(From(c, w + 2))
      THEN <<SubSeq(c, 1, d), SubSeq(c, d + 2, w), From(c, w + 2)>>
      ELSE <<>>

\* /^(\d{1,2})\s+(\w+)\s+(\d{4})$/ : <<day, month word, year>> or <<>>
DmyMatch(c) ==
  LET d == RunEnd(c, 1, "d")
      e == RunEnd(c, d + 1, "s")
      w == RunEnd(c, e + 1, "w")
      f == RunEnd(c, w + 1, "s")
  IN  IF /\ d \in {1, 2}
         /\ e >= d + 1
         /\ w >= e + 1
         /\ f >= w + 1
         /\ Len(c) = f + 4
         /\ AllDigits(From(c, f + 1))
      THEN <<SubSeq(c, 1, d), SubSeq(c, e + 1, w), From(c, f + 1)>>
      ELSE <<>>

\* /^(\w+)\s+(\d{1,2}),?\s+(\d{4})$/ : <<month word, day, year>> or <<>>
MdyMatch(c) ==
  LET w == RunEnd(c, 1, "w")
      e == RunEnd(c, w + 1, "s")
      d == RunEnd(c, e + 1, "d")
      k == IF HasAt(c, d + 1, <<",">>) THEN d + 1 ELSE d
      f == RunEnd(c, k + 1, "s")
  IN  IF /\ w >= 1
         /\ e >= w + 1
         /\ d - e \in {1, 2}
         /\ f >= k + 1
         /\ Len(c) = f + 4
         /\ AllDigits(From(c, f + 1))
      THEN <<SubSeq(c, 1, w), SubSeq(c, e + 1, d), From(c, f + 1)>>
      ELSE <<>>

\* /^(\w+)\s+(\d{4})$/ : <<month word, year>> or <<>>
MyMatch(c) ==
  LET w == RunEnd(c, 1, "w")
      e == RunEnd(c, w + 1, "s")
  IN  IF /\ w >= 1
         /\ e >= w + 1
         /\ Len(c) = e + 4
         /\ AllDigits(From(c, e + 1))
      THEN <<SubSeq(c, 1, w), From(c, e + 1)>>
      ELSE <<>>

\* MONTHS[match[i].toLowerCase()] for group i of a match: the month number,
\* or Null without a match or without such a month
MatchMonth(match, i) == IF match = <<>> THEN Null ELSE MonthOf(match[i])

\* `${year}-${month}-${day}`
IsoDate(year, month, day) == year \o <<"-">> \o month \o <<"-">> \o day

\* parseDate, the four patterns with a month word: the patterns are tried in
\* the order of the code, and one whose word is no month falls through
DateOfMatches(dash, dashMonth, dmy, dmyMonth, mdy, mdyMonth, my, myMonth) ==
  IF dashMonth # Null THEN IsoDate(dash[3], dashMonth, PadStart2(dash[1]))
  ELSE IF dmyMonth # Null THEN IsoDate(dmy[3], dmyMonth, PadStart2(dmy[1]))
  ELSE IF mdyMonth # Null THEN IsoDate(mdy[3], mdyMonth, PadStart2(mdy[2]))
  ELSE IF myMonth # Null THEN IsoDate(my[2], myMonth, <<"0","1">>)
  ELSE Null

DateOfPatterns(dash, dmy, mdy, my) ==
  DateOfMatches(dash, MatchMonth(dash, 2), dmy, MatchMonth(dmy, 2), mdy, MatchMonth(mdy, 1), my, MatchMonth(my, 1))

\* parseDate, after the qualifier is removed and the text trimmed
DateOfCleaned(cleaned) ==
  IF cleaned = <<>> \/ LowerStr(cleaned) = <<"u","n","k","n","o","w","n">> THEN Null
  ELSE IF Len(cleaned) = 4 /\ AllDigits(cleaned) THEN cleaned \o <<"-","0","1","-","0","1">>
  ELSE DateOfPatterns(DashMatch(cleaned), DmyMatch(cleaned), MdyMatch(cleaned), MyMatch(cleaned))

\* parseDate(dateStr): the ISO date, or Null
parseDate(dateStr) ==
  IF ~Truthy(dateStr) THEN Null ELSE DateOfCleaned(Trim(StripQualifier(dateStr)))

----------------------------------------------------------------------------
(* utils/gedcomParser.js: parseGedcomFull *)

\* what . of the regular expressions matches: anything but a line terminator
IsDot(c) == c \notin {"\n", "\r"}

\* content.split(/\r?\n/)
RECURSIVE SplitLines(_)
SplitLines(content) ==
  LET nl == {k \in 1..Len(content) : content[k] = "\n"}
  IN  IF nl = {} THEN <<content>>
      ELSE LET k == MinOf(nl)
               e == IF k > 1 /\ content[k - 1] = "\r" THEN k - 2 ELSE k - 1
           IN  <<SubSeq(content, 1, e)>> \o SplitLines(From(content, k + 1))

\* \s+(.+)$ matched from index i: <<the group>>, or <<>> without a match.
\* The greedy \s+ gives back white space only when nothing else is left
\* for the group.
AfterWs(s, i) ==
  LET e == RunEnd(s, i, "s")
      ps == {p \in (i + 1)..MinOf({e + 1, Len(s)}) :
               \A k \in p..Len(s) : IsDot(s[k])}
  IN  IF ps = {} THEN <<>> ELSE <<From(s, MaxOf(ps))>>

\* line.match(/^(\d+)\s+(.+)$/): <<level digits, rest>> or <<>>
LineMatch(line) ==
  LET d == RunEnd(line, 1, "d")
      g == AfterWs(line, d + 1)
  IN  IF d >= 1 /\ g # <<>> THEN <<SubSeq(line, 1, d), g[1]>> ELSE <<>>

\* the text is a cross-reference id, @\S+@
IsXref(id) ==
  /\ Len(id) >= 3
  /\ id[1] = "@"
  /\ id[Len(id)] = "@"
  /\ \A k \in 1..Len(id) : ~IsWs(id[k])

\* rest.match(/^(@\S+@)\s+KW$/) for the record keyword kw: <<id>> or <<>>
RecordMatch(rest, kw) ==
  LET k == Len(rest) - Len(kw)
      nonws == {j \in 1..k : ~IsWs(rest[j])}
      j == IF nonws = {} THEN 0 ELSE MaxOf(nonws)
  IN  IF /\ k >= 1
         /\ HasAt(rest, k + 1, kw)
         /\ j < k
         /\ IsXref(SubSeq(rest, 1, j))
      THEN <<SubSeq(rest, 1, j)>>
      ELSE <<>>

\* rest.match(/^TAG\s+(.+)$/): <<value>> or <<>>
TagValue(rest, tag) ==
  IF HasAt(rest, 1, tag) THEN AfterWs(rest, Len(tag) + 1) ELSE <<>>

\* rest.match(/^TAG\s+(@\S+@)$/): <<id>> or <<>>
TagXref(rest, tag) ==
  LET e == RunEnd(rest, Len(tag) + 1, "s")
  IN  IF /\ HasAt(rest, 1, tag)
         /\ e >= Len(tag) + 1
         /\ IsXref(From(rest, e + 1))
      THEN <<From(rest, e + 1)>>
      ELSE <<>>

\* rest.match(/^NAME\s+(.*)$/) succeeds
NameMatch(rest) ==
  LET e == RunEnd(rest, 5, "s")
  IN  /\ HasAt(rest, 1, <<"N","A","M","E">>)
      /\ \E p \in 6..(e + 1) : \A k \in p..Len(rest) : IsDot(rest[k])

\* rest.match(/^SEX\s+(\S)$/): <<the character>> or <<>>
SexMatch(rest) ==
  LET n == Len(rest)
  IN  IF /\ HasAt(rest, 1, <<"S","E","X">>)
         /\ n >= 5
         /\ ~IsWs(rest[n])
         /\ \A k \in 4..(n - 1) : IsWs(rest[k])
      THEN <<rest[n]>>
      ELSE <<>>

\* surn.replace(/[()]/g, '')
StripParens(s) == SelectSeq(s, LAMBDA c : c \notin {"(", ")"})

NewIndi(id) ==
  [gedcomId |-> id, givn |-> <<>>, surn |-> <<>>, sex |-> Null,
   birth |-> [date |-> Null, place |-> Null],
   death |-> [date |-> Null, place |-> Null],
   burial |-> [place |-> Null]]

NewFam(id) ==
  [gedcomFamId |-> id, husbandId |-> Null, wifeId |-> Null, childIds |-> <<>>]

\* The parser's variables before the first line.  currentIndi and currentFam
\* hold <<>> for null and <<record>> otherwise; currentEvent is "none" for null.
ParserInit ==
  [individuals |-> <<>>, famRecords |-> <<>>,
   currentIndi |-> <<>>, currentFam |-> <<>>, currentEvent |-> "none"]

\* a level-0 line: save the open record, open the record the line declares
Level0(st, rest) ==
  LET indiMatch == RecordMatch(rest, <<"I","N","D","I">>)
      famMatch == RecordMatch(rest, <<"F","A","M">>)
  IN  [individuals |-> st.individuals \o st.currentIndi,
       famRecords |-> st.famRecords \o st.currentFam,
       currentIndi |-> IF indiMatch # <<>> THEN <<NewIndi(indiMatch[1])>> ELSE <<>>,
       currentFam |-> IF famMatch # <<>> THEN <<NewFam(famMatch[1])>> ELSE <<>>,
       currentEvent |-> "none"]

\* a level-1 line under an INDI record: the new currentEvent
IndiLevel1Event(rest) ==
  IF rest = <<"B","I","R","T">> THEN "birth"
  ELSE IF rest = <<"D","E","A","T">> THEN "death"
  ELSE IF rest = <<"B","U","R","I">> THEN "burial"
  ELSE IF NameMatch(rest) THEN "name"
  ELSE "none"

\* a level-1 line under an INDI record: the record after it
IndiLevel1(indi, rest) ==
  LET sexMatch == SexMatch(rest)
  IN  IF rest \notin {<<"B","I","R","T">>, <<"D","E","A","T">>, <<"B","U","R","I">>} /\ sexMatch # <<>>
      THEN [indi EXCEPT !.sex = <<toUpperCase(sexMatch[1])>>]
      ELSE indi

\* a variant that would take the date under a burial for the date of death
IndiLevel2BurialDate(indi, currentEvent, rest) ==
  LET givnMatch == TagValue(rest, <<"G","I","V","N">>)
      surnMatch == TagValue(rest, <<"S","U","R","N">>)
      dateMatch == TagValue(rest, <<"D","A","T","E">>)
      placeMatch == TagValue(rest, <<"P","L","A","C">>)
  IN  CASE currentEvent = "name" ->
             [indi EXCEPT
                !.givn = IF givnMatch # <<>> THEN Trim(givnMatch[1]) ELSE @,
                !.surn = IF surnMatch # <<>> THEN Trim(StripParens(surnMatch[1])) ELSE @]
        [] currentEvent = "birth" ->
             [indi EXCEPT
                !.birth.date = IF dateMatch # <<>> THEN Trim(dateMatch[1]) ELSE @,
                !.birth.place = IF placeMatch # <<>> THEN Trim(placeMatch[1]) ELSE @]
        [] currentEvent = "death" ->
             [indi EXCEPT
                !.death.date = IF dateMatch # <<>> THEN Trim(dateMatch[1]) ELSE @,
                !.death.place = IF placeMatch # <<>> THEN Trim(placeMatch[1]) ELSE @]
        [] currentEvent = "burial" ->
             [indi EXCEPT
                !.death.date = IF dateMatch # <<>> THEN Trim(dateMatch[1]) ELSE @,
                !.burial.place = IF placeMatch # <<>> THEN Trim(placeMatch[1]) ELSE @]
        [] OTHER -> indi

\* a level-2 line under an INDI record: the record after it
IndiLevel2(indi, currentEvent, rest) ==
  LET givnMatch == TagValue(rest, <<"G","I","V","N">>)
      surnMatch == TagValue(rest, <<"S","U","R","N">>)
      dateMatch == TagValue(rest, <<"D","A","T","E">>)
      placeMatch == TagValue(rest, <<"P","L","A","C">>)
  IN  CASE currentEvent = "name" ->
             [indi EXCEPT
                !.givn = IF givnMatch # <<>> THEN Trim(givnMatch[1]) ELSE @,
                !.surn = IF surnMatch # <<>> THEN Trim(StripParens(surnMatch[1])) ELSE @]
        [] currentEvent = "birth" ->
             [indi EXCEPT
                !.birth.date = IF dateMatch # <<>> THEN Trim(dateMatch[1]) ELSE @,
                !.birth.place = IF placeMatch # <<>> THEN Trim(placeMatch[1]) ELSE @]
        [] currentEvent = "death" ->
             [indi EXCEPT
                !.death.date = IF dateMatch # <<>> THEN Trim(dateMatch[1]) ELSE @,
                !.death.place = IF placeMatch # <<>> THEN Trim(placeMatch[1]) ELSE @]
        [] currentEvent = "burial" ->
             [indi EXCEPT
                !.burial.place = IF placeMatch # <<>> THEN Trim(placeMatch[1]) ELSE @]
        [] OTHER -> indi

\* a variant that would keep the last child alone
FamLevel1LastChild(fam, rest) ==
  LET husbMatch == TagXref(rest, <<"H","U","S","B">>)
      wifeMatch == TagXref(rest, <<"W","I","F","E">>)
      chilMatch == TagXref(rest, <<"C","H","I","L">>)
  IN  [fam EXCEPT
         !.husbandId = IF husbMatch # <<>> THEN husbMatch[1] ELSE @,
         !.wifeId = IF wifeMatch # <<>> THEN wifeMatch[1] ELSE @,
         !.childIds = IF chilMatch # <<>> THEN <<chilMatch[1]>> ELSE @]

\* a level-1 line under a FAM record: the record after it
FamLevel1(fam, rest) ==
  LET husbMatch == TagXref(rest, <<"H","U","S","B">>)
      wifeMatch == TagXref(rest, <<"W","I","F","E">>)
      chilMatch == TagXref(rest, <<"C","H","I","L">>)
  IN  [fam EXCEPT
         !.husbandId = IF husbMatch # <<>> THEN husbMatch[1] ELSE @,
         !.wifeId = IF wifeMatch # <<>> THEN wifeMatch[1] ELSE @,
         !.childIds = IF chilMatch # <<>> THEN Append(@, chilMatch[1]) ELSE @]

\* a line that matched, of level level > 0 and rest rest
NestedLine(st, level, rest) ==
  [st EXCEPT
     !.currentIndi =
       IF @ = <<>> THEN @
       ELSE IF level = 1 THEN <<IndiLevel1(@[1], rest)>>
       ELSE IF level = 2 THEN <<IndiLevel2(@[1], st.currentEvent, rest)>>
       ELSE @,
     !.currentEvent =
       IF st.currentIndi # <<>> /\ level = 1 THEN IndiLevel1Event(rest) ELSE @,
     !.currentFam =
       IF @ # <<>> /\ level = 1 THEN <<FamLevel1(@[1], rest)>> ELSE @]

\* a line with the result match of the line expression
MatchedLine(st, match) ==
  IF match = <<>> THEN st
  ELSE IF ParseInt(match[1]) = 0 THEN Level0(st, match[2])
  ELSE NestedLine(st, ParseInt(match[1]), match[2])

\* one iteration of the loop over the lines
ParseLine(st, line) == MatchedLine(st, LineMatch(line))

RECURSIVE ParseLines(_, _)
ParseLines(st, lines) ==
  IF lines = <<>> THEN st ELSE ParseLines(ParseLine(st, Head(lines)), Tail(lines))

\* [indi.givn, indi.surn].filter(Boolean).join(' ').trim()
FullName(indi) ==
  Trim(IF Truthy(indi.givn) /\ Truthy(indi.surn) THEN indi.givn \o <<" ">> \o indi.surn
       ELSE IF Truthy(indi.givn) THEN indi.givn
       ELSE IF Truthy(indi.surn) THEN indi.surn
       ELSE <<>>)

\* name.split(' ').map(w => w.charAt(0).toUpperCase() + w.slice(1)).join(' '):
\* the first character of every word is put in upper case, the rest is kept
DisplayName(name) ==
  [i \in 1..Len(name) |->
     IF i = 1 \/ name[i - 1] = " " THEN toUpperCase(name[i]) ELSE name[i]]

\* a place that is given and is anything but the placeholder, without the
\* exclusion of the placeholder
KnownPlaceAny(place) == Truthy(place)

\* place && place !== '?': a place that is given and is not the placeholder
KnownPlace(place) == Truthy(place) /\ place # <<"?">>

\* the birth event of an individual, if it has one
BirthEvent(indi, displayName, birthDate) ==
  IF Truthy(birthDate) /\ KnownPlace(indi.birth.place)
  THEN <<[name |-> displayName, type |-> "birth",
          title |-> displayName \o <<" ","-"," ","B","i","r","t","h">>,
          description |-> <<"B","o","r","n",":"," ">> \o indi.birth.date,
          date |-> birthDate, rawDate |-> indi.birth.date,
          place |-> indi.birth.place, category |-> "birth"]>>
  ELSE <<>>

\* the death event of an individual, if it has one
DeathEvent(indi, displayName, deathDate) ==
  IF Truthy(deathDate) /\ KnownPlace(indi.death.place)
  THEN <<[name |-> displayName, type |-> "death",
          title |-> displayName \o <<" ","-"," ","D","e","a","t","h">>,
          description |-> <<"D","i","e","d",":"," ">> \o indi.death.date,
          date |-> deathDate, rawDate |-> indi.death.date,
          place |-> indi.death.place, category |-> "death"]>>
  ELSE <<>>

\* the burial event of an individual, if it has one: it is dated by the
\* death, or else by the birth
BurialEvent(indi, displayName, burialDate) ==
  IF KnownPlace(indi.burial.place) /\ Truthy(burialDate)
  THEN <<[name |-> displayName, type |-> "burial",
          title |-> displayName \o <<" ","-"," ","B","u","r","i","a","l">>,
          description |-> <<"B","u","r","i","a","l"," ","p","l","a","c","e">> \o
            (IF Truthy(indi.death.date)
             THEN <<" ","(","d","i","e","d",":"," ">> \o indi.death.date \o <<")">> ELSE <<>>),
          date |-> burialDate,
          rawDate |-> IF Truthy(indi.death.date) THEN indi.death.date
                      ELSE indi.birth.date,
          place |-> indi.burial.place, category |-> "death"]>>
  ELSE <<>>

\* the events of an individual with the burial dated by the birth alone
DatedEventsBirthDated(indi, displayName, birthDate, deathDate) ==
  BirthEvent(indi, displayName, birthDate)
  \o DeathEvent(indi, displayName, deathDate)
  \o BurialEvent(indi, displayName, birthDate)

\* the events of an individual with its display name and its parsed dates
DatedEvents(indi, displayName, birthDate, deathDate) ==
  BirthEvent(indi, displayName, birthDate)
  \o DeathEvent(indi, displayName, deathDate)
  \o BurialEvent(indi, displayName, IF Truthy(deathDate) THEN deathDate ELSE birthDate)

\* the events of an individual named name
NamedEvents(indi, name) ==
  IF name = <<>> THEN <<>>
  ELSE DatedEvents(indi, DisplayName(name), parseDate(indi.birth.date), parseDate(indi.death.date))

\* the events of one individual: birth, death, burial, in that order
EventsOf(indi) == NamedEvents(indi, FullName(indi))

RECURSIVE BuildEvents(_)
BuildEvents(individuals) ==
  IF individuals = <<>> THEN <<>>
  ELSE EventsOf(Head(individuals)) \o BuildEvents(Tail(individuals))

\* the entry of an individual named name in the people array
NamedPerson(indi, name) ==
  IF name = <<>> THEN <<>>
  ELSE <<[gedcomId |-> indi.gedcomId,
          name |-> DisplayName(name),
          sex |-> indi.sex,
          birthDate |-> parseDate(indi.birth.date),
          birthPlace |-> IF Truthy(indi.birth.place) THEN indi.birth.place ELSE Null,
          deathDate |-> parseDate(indi.death.date),
          deathPlace |-> IF Truthy(indi.death.place) THEN indi.death.place ELSE Null]>>

\* the people array: the individuals that have a name
RECURSIVE BuildPeople(_)
BuildPeople(individuals) ==
  IF individuals = <<>> THEN <<>>
  ELSE NamedPerson(Head(individuals), FullName(Head(individuals)))
       \o BuildPeople(Tail(individuals))

\* the result of parseGedcomFull from the records the loop has collected
ParseResult(individuals, famRecords) ==
  [events |-> BuildEvents(individuals),
   people |-> BuildPeople(individuals),
   families |-> famRecords]

\* the records the loop has collected, the open ones included
Collected(st) ==
  ParseResult(st.individuals \o st.currentIndi, st.famRecords \o st.currentFam)

\* parseGedcomFull(content): { events, people, families }
parseGedcomFull(content) == Collected(ParseLines(ParserInit, SplitLines(content)))

----------------------------------------------------------------------------
(* utils/geocoder.js: cleanPlaceName *)

\* s.replace(/pat/gi, rep) for a literal pat; wb: the pattern stands between
\* \b word boundaries
RECURSIVE ReplaceAllCI(_, _, _, _)
ReplaceAllCI(s, pat, rep, wb) ==
  LET hit == {i \in 1..Len(s) :
                /\ HasAtCI(s, i, pat)
                /\ wb => /\ (i = 1 \/ ~IsWord(s[i - 1]))
                         /\ (i + Len(pat) > Len(s) \/ ~IsWord(s[i + Len(pat)]))}
  IN  IF hit = {} THEN s
      ELSE LET i == MinOf(hit)
           IN  SubSeq(s, 1, i - 1) \o rep
               \o ReplaceAllCI(From(s, i + Len(pat)), pat, rep, wb)

\* s.replace(/\s*-\s*Burial.*$/i, ''): cut at the leftmost match
StripBurial(s) ==
  LET hit == {i \in 1..Len(s) :
                LET a == RunEnd(s, i, "s")
                    b == RunEnd(s, a + 2, "s")
                IN  /\ HasAt(s, a + 1, <<"-">>)
                    /\ HasAtCI(s, b + 1, <<"B","u","r","i","a","l">>)
                    /\ \A k \in (b + 7)..Len(s) : IsDot(s[k])}
  IN  IF hit = {} THEN s ELSE SubSeq(s, 1, MinOf(hit) - 1)

\* s.replace(/,\s*,/g, ','): matches do not overlap
RECURSIVE CollapseCommas(_)
CollapseCommas(s) ==
  LET hit == {i \in 1..Len(s) :
                s[i] = "," /\ HasAt(s, RunEnd(s, i + 1, "s") + 1, <<",">>)}
  IN  IF hit = {} THEN s
      ELSE LET i == MinOf(hit)
           IN  SubSeq(s, 1, i - 1) \o <<",">>
               \o CollapseCommas(From(s, RunEnd(s, i + 1, "s") + 2))

\* s.replace(/,\s*$/g, '')
StripTrailingComma(s) ==
  LET hit == {i \in 1..Len(s) : s[i] = "," /\ RunEnd(s, i + 1, "s") = Len(s)}
  IN  IF hit = {} THEN s ELSE SubSeq(s, 1, MinOf(hit) - 1)

\* s.replace(/^\s*,/g, '')
StripLeadingComma(s) ==
  LET e == RunEnd(s, 1, "s")
  IN  IF HasAt(s, e + 1, <<",">>) THEN From(s, e + 2) ELSE s

\* s.replace(/\s+/g, ' ')
RECURSIVE CollapseWs(_)
CollapseWs(s) ==
  LET hit == {i \in 1..Len(s) : IsWs(s[i])}
  IN  IF hit = {} THEN s
      ELSE LET i == MinOf(hit)
           IN  SubSeq(s, 1, i - 1) \o <<" ">>
               \o CollapseWs(From(s, RunEnd(s, i, "s") + 1))

\* 'Kolobrzeg, Poland' as the code spells it: its third letter is the
\* Polish l with stroke, written here as the one character "l-stroke"
Kolobrzeg == <<"K","o">> \o <<"l-stroke">> \o <<"o","b","r","z","e","g",","," ","P","o","l","a","n","d">>

\* cleanPlaceName, the two special cases and the result: null for the empty text
CleanedOrNull(s8, lower) ==
  IF lower = <<"b","r","u","g","g","e">> THEN <<"B","r","u","g","g","e",","," ","B","e","l","g","i","u","m">>
  ELSE IF lower = <<"k","o","l","b","e","r","g">> THEN Kolobrzeg
  ELSE IF s8 = <<>> THEN Null
  ELSE s8

SpecialCases(s8) == CleanedOrNull(s8, LowerStr(s8))

\* cleanPlaceName(place): the cleaned place, or Null
cleanPlaceName(place) ==
  IF ~Truthy(place) \/ place = <<"?">> THEN Null
  ELSE
  LET s1 == StripBurial(place)
      s2 == ReplaceAllCI(s1, <<"C","e","y","l","o","n">>, <<"S","r","i"," ","L","a","n","k","a">>, TRUE)
      s3 == ReplaceAllCI(s2, <<"(","S","r","i"," ","L","a","n","k","a",")">>, <<>>, FALSE)
      s4 == ReplaceAllCI(s3, <<"(","C","e","y","l","o","n",")">>, <<>>, FALSE)
      s5 == ReplaceAllCI(s4, <<"W","e","s","t","e","r","n"," ","P","r","o","v",".">>, <<"W","e","s","t","e","r","n"," ","P","r","o","v","i","n","c","e">>, FALSE)
      s6 == ReplaceAllCI(s5, <<"E","n","g","n","d">>, <<"E","n","g","l","a","n","d">>, TRUE)
      s7 == ReplaceAllCI(s6, <<"B","e","l","g","i","q","u","e">>, <<"B","e","l","g","i","u","m">>, TRUE)
  IN  SpecialCases(
        Trim(CollapseWs(StripLeadingComma(StripTrailingComma(CollapseCommas(s7))))))

\* cleaned.split(',').map(p => p.trim())
RECURSIVE SplitParts(_)
SplitParts(s) ==
  LET hit == {i \in 1..Len(s) : s[i] = ","}
  IN  IF hit = {} THEN <<Trim(s)>>
      ELSE <<Trim(SubSeq(s, 1, MinOf(hit) - 1))>> \o SplitParts(From(s, MinOf(hit) + 1))

\* parts.slice(-2).join(', '), the query of the second attempt
Simplified(parts) == parts[Len(parts) - 1] \o <<","," ">> \o parts[Len(parts)]

\* the condition that would retry a place of two parts as well
HasFallbackTwoParts(parts) == Len(parts) > 1

\* parts.length > 2: the second attempt is made when the cleaned place has
\* more than two parts
HasFallback(parts) == Len(parts) > 2

\* A JavaScript number with one decimal, in tenths; nan marks NaN
NaN == [nan |-> TRUE, tenths |-> 0]

\* parseFloat(text): sign, digits, and the first decimal of the text
ParseFloat(text) ==
  LET neg == HasAt(text, 1, <<"-">>)
      i == IF neg \/ HasAt(text, 1, <<"+">>) THEN 2 ELSE 1
      d == RunEnd(text, i, "d")
      f == IF HasAt(text, d + 1, <<".">>) THEN RunEnd(text, d + 2, "d") ELSE d
      whole == ParseInt(SubSeq(text, i, d))
      frac == IF f >= d + 2 THEN ParseInt(SubSeq(text, d + 2, d + 2)) ELSE 0
  IN  IF d < i /\ f < d + 2 THEN NaN
      ELSE [nan |-> FALSE,
            tenths |-> (IF neg THEN -1 ELSE 1) * (10 * whole + frac)]

\* { lat: parseFloat(results[0].lat), lon: parseFloat(results[0].lon) }
FirstCandidate(results) ==
  [lat |-> ParseFloat(results[1].lat), lon |-> ParseFloat(results[1].lon)]

----------------------------------------------------------------------------
(* models/database.js: the tables and the queries the import uses.          *)
(* A table is the sequence of its rows in rowid order; seq holds the        *)
(* AUTOINCREMENT counter of each table.                                     *)

EmptyDb ==
  [events |-> <<>>, gedcom_people |-> <<>>, gedcom_families |-> <<>>,
   gedcom_children |-> <<>>, family_relationships |-> <<>>,
   seq |-> [events |-> 0, gedcom_people |-> 0, gedcom_families |-> 0,
            gedcom_children |-> 0, family_relationships |-> 0]]

\* the insertion of an event with latitude and longitude in each other's column
createWithSourceSwapped(d, userId, title, description, eventDate, endDate, latitude, longitude, category, source) ==
  [d EXCEPT
     !.events = Append(@,
        [id |-> d.seq.events + 1, user_id |-> userId, title |-> title,
         description |-> description, event_date |-> eventDate,
         end_date |-> endDate, latitude |-> longitude, longitude |-> latitude,
         category |-> category, source |-> source]),
     !.seq.events = @ + 1]

\* eventQueries.createWithSource
createWithSource(d, userId, title, description, eventDate, endDate, latitude, longitude, category, source) ==
  [d EXCEPT
     !.events = Append(@,
        [id |-> d.seq.events + 1, user_id |-> userId, title |-> title,
         description |-> description, event_date |-> eventDate,
         end_date |-> endDate, latitude |-> latitude, longitude |-> longitude,
         category |-> category, source |-> source]),
     !.seq.events = @ + 1]

\* eventQueries.deleteByUserIdAndSource
deleteByUserIdAndSource(d, userId, source) ==
  [d EXCEPT !.events =
     SelectSeq(@, LAMBDA r : ~(r.user_id = userId /\ r.source = source))]

\* gedcomPeopleQueries.create
gedcomPeopleCreate(d, userId, person) ==
  [d EXCEPT
     !.gedcom_people = Append(@,
        [id |-> d.seq.gedcom_people + 1, user_id |-> userId,
         gedcom_id |-> person.gedcomId, name |-> person.name,
         birth_date |-> IF Truthy(person.birthDate) THEN person.birthDate ELSE Null,
         birth_place |-> IF Truthy(person.birthPlace) THEN person.birthPlace ELSE Null,
         death_date |-> IF Truthy(person.deathDate) THEN person.deathDate ELSE Null,
         death_place |-> IF Truthy(person.deathPlace) THEN person.deathPlace ELSE Null,
         sex |-> IF Truthy(person.sex) THEN person.sex ELSE Null]),
     !.seq.gedcom_people = @ + 1]

\* the deletion of the stored people of every user
gedcomPeopleDeleteAll(d, userId) ==
  [d EXCEPT !.gedcom_people = <<>>]

\* gedcomPeopleQueries.deleteByUserId
gedcomPeopleDeleteByUserId(d, userId) ==
  [d EXCEPT !.gedcom_people = SelectSeq(@, LAMBDA r : r.user_id # userId)]

\* gedcomFamilyQueries.create; the new row's id is lastInsertRowid
gedcomFamilyCreate(d, userId, fam) ==
  [d EXCEPT
     !.gedcom_families = Append(@,
        [id |-> d.seq.gedcom_families + 1, user_id |-> userId,
         gedcom_fam_id |-> fam.gedcomFamId,
         husband_gedcom_id |-> IF Truthy(fam.husbandId) THEN fam.husbandId ELSE Null,
         wife_gedcom_id |-> IF Truthy(fam.wifeId) THEN fam.wifeId ELSE Null]),
     !.seq.gedcom_families = @ + 1]

\* gedcomFamilyQueries.createChild
gedcomFamilyCreateChild(d, gedcomFamilyId, childGedcomId) ==
  [d EXCEPT
     !.gedcom_children = Append(@,
        [id |-> d.seq.gedcom_children + 1, gedcom_family_id |-> gedcomFamilyId,
         child_gedcom_id |-> childGedcomId]),
     !.seq.gedcom_children = @ + 1]

\* the deletion of the families alone, their children left in the table
gedcomFamilyDeleteFamiliesOnly(d, userId) ==
  [d EXCEPT !.gedcom_families = SelectSeq(@, LAMBDA r : r.user_id # userId)]

\* gedcomFamilyQueries.deleteByUserId: the children of the user's families
\* first, then the families
gedcomFamilyDeleteByUserId(d, userId) ==
  LET families == {d.gedcom_families[i].id : i \in
                     {k \in 1..Len(d.gedcom_families) :
                        d.gedcom_families[k].user_id = userId}}
  IN  [d EXCEPT
         !.gedcom_children =
            SelectSeq(@, LAMBDA r : r.gedcom_family_id \notin families),
         !.gedcom_families = SelectSeq(@, LAMBDA r : r.user_id # userId)]

\* gedcomPeopleQueries.findByUserId, with the rows in rowid order instead of
\* its ORDER BY name
PeopleOf(d, userId) == SelectSeq(d.gedcom_people, LAMBDA r : r.user_id = userId)

\* gedcomFamilyQueries.findByUserId
FamiliesOf(d, userId) == SelectSeq(d.gedcom_families, LAMBDA r : r.user_id = userId)

\* gedcomFamilyQueries.findChildrenByFamilyId
ChildrenOf(d, gedcomFamilyId) ==
  SelectSeq(d.gedcom_children, LAMBDA r : r.gedcom_family_id = gedcomFamilyId)

\* eventQueries.findByUserIdAndSource
EventsOfUser(d, userId, source) ==
  SelectSeq(d.events, LAMBDA r : r.user_id = userId /\ r.source = source)

\* familyRelationshipQueries.create
familyRelationshipCreate(d, familyId, userId, relatedUserId, relationship) ==
  [d EXCEPT
     !.family_relationships = Append(@,
        [id |-> d.seq.family_relationships + 1, family_id |-> familyId,
         user_id |-> userId, related_user_id |-> relatedUserId,
         relationship |-> relationship]),
     !.seq.family_relationships = @ + 1]

\* familyRelationshipQueries.deleteByPair
deleteByPair(d, familyId, userId, relatedUserId) ==
  [d EXCEPT !.family_relationships =
     SelectSeq(@, LAMBDA r :
       ~(/\ r.family_id = familyId
         /\ \/ r.user_id = userId /\ r.related_user_id = relatedUserId
            \/ r.user_id = relatedUserId /\ r.related_user_id = userId))]

\* familyRelationshipQueries.findByFamilyId
findByFamilyId(d, familyId) ==
  SelectSeq(d.family_relationships, LAMBDA r : r.family_id = familyId)

\* eventQueries.create: the column source takes its default, 'manual'
eventCreate(d, userId, title, description, eventDate, endDate, latitude, longitude, category) ==
  createWithSource(d, userId, title, description, eventDate, endDate, latitude, longitude, category, "manual")

----------------------------------------------------------------------------
(* The uploaded files the model imports *)

\* the text of a file whose lines are given
RECURSIVE JoinLines(_)
JoinLines(lines) ==
  IF lines = <<>> THEN <<>>
  ELSE IF Len(lines) = 1 THEN lines[1]
  ELSE lines[1] \o <<"\n">> \o JoinLines(Tail(lines))

\* one person, named on the NAME line and by GIVN and SURN, born in Sydney
FileJohn == JoinLines(<<
  <<"0"," ","H","E","A","D">>,
  <<"0"," ","@","I","1","@"," ","I","N","D","I">>,
  <<"1"," ","N","A","M","E"," ","J","o","h","n"," ","/","S","m","i","t","h","/">>,
  <<"2"," ","G","I","V","N"," ","J","o","h","n">>,
  <<"2"," ","S","U","R","N"," ","S","m","i","t","h">>,
  <<"1"," ","S","E","X"," ","M">>,
  <<"1"," ","B","I","R","T">>,
  <<"2"," ","D","A","T","E"," ","1","2"," ","O","C","T"," ","1","9","8","2">>,
  <<"2"," ","P","L","A","C"," ","S","y","d","n","e","y",","," ","A","u","s","t","r","a","l","i","a">>,
  <<"0"," ","T","R","L","R">> >>)

\* the same person, named on the NAME line alone
FileJohnNameOnly == JoinLines(<<
  <<"0"," ","H","E","A","D">>,
  <<"0"," ","@","I","1","@"," ","I","N","D","I">>,
  <<"1"," ","N","A","M","E"," ","J","o","h","n"," ","/","S","m","i","t","h","/">>,
  <<"1"," ","S","E","X"," ","M">>,
  <<"1"," ","B","I","R","T">>,
  <<"2"," ","D","A","T","E"," ","1","2"," ","O","C","T"," ","1","9","8","2">>,
  <<"2"," ","P","L","A","C"," ","S","y","d","n","e","y",","," ","A","u","s","t","r","a","l","i","a">>,
  <<"0"," ","T","R","L","R">> >>)

\* one person whose only event is a birth at the placeholder place
FileQuestion == JoinLines(<<
  <<"0"," ","@","I","1","@"," ","I","N","D","I">>,
  <<"1"," ","N","A","M","E"," ","m","a","r","y"," ","/","J","O","N","E","S","/">>,
  <<"2"," ","G","I","V","N"," ","m","a","r","y">>,
  <<"2"," ","S","U","R","N"," ","J","O","N","E","S">>,
  <<"1"," ","B","I","R","T">>,
  <<"2"," ","D","A","T","E"," ","1","9","0","0">>,
  <<"2"," ","P","L","A","C"," ","?">> >>)

\* two persons and a family link; a birth at the placeholder place, two
\* spellings of one place with three parts, and the place of FileJohn
FileFamily == JoinLines(<<
  <<"0"," ","@","I","1","@"," ","I","N","D","I">>,
  <<"1"," ","N","A","M","E"," ","J","a","n"," ","/","P","e","i","r","i","s","/">>,
  <<"2"," ","G","I","V","N"," ","J","a","n">>,
  <<"2"," ","S","U","R","N"," ","P","e","i","r","i","s">>,
  <<"1"," ","S","E","X"," ","M">>,
  <<"1"," ","B","I","R","T">>,
  <<"2"," ","D","A","T","E"," ","A","b","t","."," ","1","7","5","6">>,
  <<"2"," ","P","L","A","C"," ","?">>,
  <<"1"," ","D","E","A","T">>,
  <<"2"," ","D","A","T","E"," ","0","1","-","F","e","b","-","1","8","3","7">>,
  <<"2"," ","P","L","A","C"," ","G","a","l","l","e",","," ","S","o","u","t","h","e","r","n"," ","P","r","o","v",".",","," ","C","e","y","l","o","n">>,
  <<"0"," ","@","I","2","@"," ","I","N","D","I">>,
  <<"1"," ","N","A","M","E"," ","A","n","n","a"," ","/","P","e","i","r","i","s","/">>,
  <<"2"," ","G","I","V","N"," ","A","n","n","a">>,
  <<"2"," ","S","U","R","N"," ","P","e","i","r","i","s">>,
  <<"1"," ","S","E","X"," ","F">>,
  <<"1"," ","B","I","R","T">>,
  <<"2"," ","D","A","T","E"," ","M","a","y"," ","1","2",","," ","1","8","0","5">>,
  <<"2"," ","P","L","A","C"," ","S","y","d","n","e","y",","," ","A","u","s","t","r","a","l","i","a">>,
  <<"1"," ","B","U","R","I">>,
  <<"2"," ","P","L","A","C"," ","G","a","l","l","e",","," ","S","o","u","t","h","e","r","n"," ","P","r","o","v",".",","," ","C","e","y","l","o","n"," ","(","S","r","i"," ","L","a","n","k","a",")">>,
  <<"0"," ","@","F","1","@"," ","F","A","M">>,
  <<"1"," ","H","U","S","B"," ","@","I","1","@">>,
  <<"1"," ","W","I","F","E"," ","@","I","9","@">>,
  <<"1"," ","C","H","I","L"," ","@","I","2","@">>,
  <<"1"," ","C","H","I","L"," ","@","I","3","@">> >>)

\* one person born at a place of which the cleaning leaves nothing
FileBracket == JoinLines(<<
  <<"0"," ","@","I","1","@"," ","I","N","D","I">>,
  <<"1"," ","N","A","M","E"," ","I","a","n"," ","/","P","e","r","e","r","a","/">>,
  <<"2"," ","G","I","V","N"," ","I","a","n">>,
  <<"2"," ","S","U","R","N"," ","P","e","r","e","r","a">>,
  <<"1"," ","B","I","R","T">>,
  <<"2"," ","D","A","T","E"," ","1","8","5","0">>,
  <<"2"," ","P","L","A","C"," ","(","C","e","y","l","o","n",")">> >>)

Files == <<FileJohn, FileJohnNameOnly, FileQuestion, FileFamily, FileBracket>>

FileIds == 1..Len(Files)

----------------------------------------------------------------------------
(* The geocoding service, seen from the client *)

\* the candidate the service returns for a query when it returns one
Gazetteer(query) ==
  IF query = <<"S","y","d","n","e","y",","," ","A","u","s","t","r","a","l","i","a">> THEN [lat |-> <<"-","3","3",".","8">>, lon |-> <<"1","5","1",".","2">>]
  ELSE IF query = <<"S","o","u","t","h","e","r","n"," ","P","r","o","v",".",","," ","S","r","i"," ","L","a","n","k","a">> THEN [lat |-> <<"6",".","1">>, lon |-> <<"8","0",".","5">>]
  ELSE [lat |-> <<"6",".","0">>, lon |-> <<"8","0",".","2">>]

\* What fetchJson can settle with: a list with the first candidate, an empty
\* list, or a rejection (network error, unparsable body, timeout)
Responses(query) ==
  {[ok |-> TRUE, results |-> <<Gazetteer(query)>>],
   [ok |-> TRUE, results |-> <<>>],
   [ok |-> FALSE, results |-> <<>>]}

----------------------------------------------------------------------------
(* Bounds of the model *)

NumUsers == 1

NumSlots == 2

MaxImports == 3

StartTime == 5000

TickMs == 550

MaxTicks == 4

\* geocoder.js: the spacing of the rate limit, in ms
MinSpacing == 1100

Users == 1..NumUsers

Slots == 1..NumSlots

----------------------------------------------------------------------------
(* The parts of the state that a specification leaves alone *)

\* no call of parseDate
NoDate == [qualifier |-> <<>>, text |-> <<>>, returned |-> FALSE, result |-> Null]

\* no run of parseGedcomFull
NoParse == [lines |-> <<>>, st |-> ParserInit, left |-> 0]

\* no run of a tree builder
NoTree == [pc |-> "none"]

----------------------------------------------------------------------------
(* routes/events.js: POST /import-gedcom, with geocodeAll and geocode of     *)
(* utils/geocoder.js run inside it.  JavaScript runs one handler at a time   *)
(* and a handler gives way only where it awaits a timer or a response, so    *)
(* every action below is the code between two such points.                   *)

\* the code units of the characters that names are compared by, in order
Ascii == <<" ","!","#","$","%","&","'","(",")","*","+",",","-",".","/","0","1","2","3","4","5","6","7","8","9",":",";","<","=",">","?","@","A","B","C","D","E","F","G","H","I","J","K","L","M","N","O","P","Q","R","S","T","U","V","W","X","Y","Z","[","]","^","_","a","b","c","d","e","f","g","h","i","j","k","l","m","n","o","p","q","r","s","t","u","v","w","x","y","z","{","|","}","~">>

CharCode(c) == CHOOSE i \in 1..Len(Ascii) : Ascii[i] = c

\* a < b in the order of Array.prototype.sort without a comparator
RECURSIVE StrLess(_, _)
StrLess(a, b) ==
  IF b = <<>> THEN FALSE
  ELSE IF a = <<>> THEN TRUE
  ELSE IF a[1] = b[1] THEN StrLess(Tail(a), Tail(b))
  ELSE CharCode(a[1]) < CharCode(b[1])

\* Array.prototype.sort on an array of strings
RECURSIVE SortStrings(_)
SortStrings(names) ==
  IF names = <<>> THEN <<>>
  ELSE LET rest == SortStrings(Tail(names))
           k == Cardinality({i \in 1..Len(rest) : ~StrLess(Head(names), rest[i])})
       IN  SubSeq(rest, 1, k) \o <<Head(names)>> \o SubSeq(rest, k + 1, Len(rest))

\* the elements of a sequence
Range(s) == {s[i] : i \in 1..Len(s)}

\* [...new Set(items)]: the first occurrence of each item, in order
RECURSIVE Distinct(_)
Distinct(items) ==
  IF items = <<>> THEN <<>>
  ELSE LET front == Distinct(SubSeq(items, 1, Len(items) - 1))
           last == items[Len(items)]
       IN  IF last \in Range(front) THEN front ELSE Append(front, last)

\* geocodeAll: [...new Set(places.filter(p => p && p !== '?'))]
Unique(places) ==
  Distinct(SelectSeq(places, LAMBDA p : Truthy(p) /\ p # <<"?">>))

\* parsedEvents.map(e => e.place)
PlacesOf(events) == [i \in 1..Len(events) |-> events[i].place]

\* What geocode computes from a place before any lookup: the cache key
\* cleaned and, from its parts, the query of the second attempt
PlanEntry(place, cleaned, parts) ==
  [place |-> place,
   cleaned |-> cleaned,
   fallback |-> cleaned # Null /\ HasFallback(parts),
   simplified |-> IF cleaned # Null /\ HasFallback(parts) THEN Simplified(parts) ELSE Null]

CleanedEntry(place, cleaned) == PlanEntry(place, cleaned, SplitParts(cleaned))

RECURSIVE PlanOf(_)
PlanOf(places) ==
  IF places = <<>> THEN <<>>
  ELSE <<CleanedEntry(Head(places), cleanPlaceName(Head(places)))>> \o PlanOf(Tail(places))

\* what the handler has of an uploaded file: the result parsed of
\* parseGedcomFull, and plan, the entries of the unique places of its events
\* in the order geocodeAll visits them
Uploaded(parsed) ==
  [parsed |-> parsed, plan |-> PlanOf(Unique(PlacesOf(parsed.events)))]

RECURSIVE UploadAll(_)
UploadAll(files) ==
  IF files = <<>> THEN <<>>
  ELSE <<Uploaded(parseGedcomFull(Head(files)))>> \o UploadAll(Tail(files))

\* Uploads[f] for file f, computed once
Uploads == UploadAll(Files)

\* Parsed[f] is parseGedcomFull(Files[f])
Parsed == [f \in FileIds |-> Uploads[f].parsed]

\* Plan[f][i]: the i-th unique place of the events of file f
Plan == [f \in FileIds |-> Uploads[f].plan]

\* cache.set(key, value)
CacheSet(cch, key, value) ==
  [k \in DOMAIN cch \cup {key} |-> IF k = key THEN value ELSE cch[k]]

\* results.set(place, coords)
MapSet(results, place, coords) ==
  [p \in DOMAIN results \cup {place} |-> IF p = place THEN coords ELSE results[p]]

\* the loop of geocodeAll without the report of a place served from the cache
RECURSIVE geocodeAllFromQuiet(_, _, _)
geocodeAllFromQuiet(r, cch, plan) ==
  IF r.idx > Len(plan) THEN [r EXCEPT !.cleaned = Null]
  ELSE LET place == plan[r.idx].place
           cleaned == plan[r.idx].cleaned
       IN  IF cleaned = Null
             THEN geocodeAllFromQuiet(
                    [r EXCEPT !.idx = @ + 1,
                              !.progress = Append(@, <<r.idx, Len(plan)>>)], cch, plan)
           ELSE IF cleaned \in DOMAIN cch
             THEN geocodeAllFromQuiet(
                    [r EXCEPT !.idx = @ + 1,
                              !.results = IF cch[cleaned] # <<>>
                                          THEN MapSet(@, place, cch[cleaned][1])
                                          ELSE @], cch, plan)
           ELSE [r EXCEPT !.cleaned = cleaned]

\* The loop of geocodeAll over the places plan from place r.idx on, as far as
\* it runs without waiting: a place that cleans to null or is in the cache is
\* completed at once.  It stops at the first place that needs a lookup
\* (r.cleaned is its cache key), or past the last place.
RECURSIVE geocodeAllFrom(_, _, _)
geocodeAllFrom(r, cch, plan) ==
  IF r.idx > Len(plan) THEN [r EXCEPT !.cleaned = Null]
  ELSE LET place == plan[r.idx].place
           cleaned == plan[r.idx].cleaned
       IN  IF cleaned = Null
             THEN geocodeAllFrom(
                    [r EXCEPT !.idx = @ + 1,
                              !.progress = Append(@, <<r.idx, Len(plan)>>)], cch, plan)
           ELSE IF cleaned \in DOMAIN cch
             THEN geocodeAllFrom(
                    [r EXCEPT !.idx = @ + 1,
                              !.progress = Append(@, <<r.idx, Len(plan)>>),
                              !.results = IF cch[cleaned] # <<>>
                                          THEN MapSet(@, place, cch[cleaned][1])
                                          ELSE @], cch, plan)
           ELSE [r EXCEPT !.cleaned = cleaned]

\* the body of the loop with the count of the skipped events left out
PersistStepNoSkip(acc, userId, evt, geocoded) ==
  IF evt.place \notin DOMAIN geocoded THEN acc
  ELSE LET coords == geocoded[evt.place]
       IN  [db |-> createWithSource(acc.db, userId, evt.title,
                      IF Truthy(evt.description) THEN evt.description ELSE Null,
                      evt.date, Null, coords.lat, coords.lon,
                      evt.category, "gedcom"),
            imported |-> acc.imported + 1,
            skipped |-> acc.skipped,
            peopleSet |-> IF evt.name \in Range(acc.peopleSet)
                          THEN acc.peopleSet
                          ELSE Append(acc.peopleSet, evt.name),
            persisted |-> acc.persisted \cup {acc.db.seq.events + 1}]

\* the body of the loop over parsedEvents: an event whose place has no
\* coordinates is skipped, any other is stored and its person noted
PersistStep(acc, userId, evt, geocoded) ==
  IF evt.place \notin DOMAIN geocoded THEN [acc EXCEPT !.skipped = @ + 1]
  ELSE LET coords == geocoded[evt.place]
       IN  [db |-> createWithSource(acc.db, userId, evt.title,
                      IF Truthy(evt.description) THEN evt.description ELSE Null,
                      evt.date, Null, coords.lat, coords.lon,
                      evt.category, "gedcom"),
            imported |-> acc.imported + 1,
            skipped |-> acc.skipped,
            peopleSet |-> IF evt.name \in Range(acc.peopleSet)
                          THEN acc.peopleSet
                          ELSE Append(acc.peopleSet, evt.name),
            persisted |-> acc.persisted \cup {acc.db.seq.events + 1}]

\* the loop over parsedEvents that stores the geocoded events
RECURSIVE PersistEvents(_, _, _, _)
PersistEvents(acc, userId, events, geocoded) ==
  IF events = <<>> THEN acc
  ELSE PersistEvents(PersistStep(acc, userId, Head(events), geocoded),
                     userId, Tail(events), geocoded)

\* the loop that stores the parsed people
RECURSIVE StorePeople(_, _, _)
StorePeople(d, userId, people) ==
  IF people = <<>> THEN d
  ELSE StorePeople(gedcomPeopleCreate(d, userId, Head(people)), userId, Tail(people))

\* the loop that stores the children of one family
RECURSIVE StoreChildren(_, _, _)
StoreChildren(d, gedcomFamilyId, childIds) ==
  IF childIds = <<>> THEN d
  ELSE StoreChildren(gedcomFamilyCreateChild(d, gedcomFamilyId, Head(childIds)),
                     gedcomFamilyId, Tail(childIds))

\* the loop that stores the parsed families
RECURSIVE StoreFamilies(_, _, _)
StoreFamilies(d, userId, families) ==
  IF families = <<>> THEN d
  ELSE LET d1 == gedcomFamilyCreate(d, userId, Head(families))
       IN  StoreFamilies(StoreChildren(d1, d1.seq.gedcom_families, Head(families).childIds),
                         userId, Tail(families))

\* the raw-entity step: the user's stored people and families are deleted
\* and the parsed ones are stored
ReplaceRaw(d, userId, parsed) ==
  StoreFamilies(
    StorePeople(
      gedcomPeopleDeleteByUserId(gedcomFamilyDeleteByUserId(d, userId), userId),
      userId, parsed.people),
    userId, parsed.families)

\* the test for no events, never true
NoEventsNever(parsed) == FALSE

\* events.js: parsedEvents.length === 0
NoEvents(parsed) == Len(parsed.events) = 0

NoResponse ==
  [kind |-> "none", imported |-> 0, skipped |-> 0, people |-> <<>>,
   peopleCount |-> 0, familiesCount |-> 0, named |-> 0, persisted |-> {}]

\* the response when no event was parsed; its message is the one of kind
\* "info": 'No geocodable events found. Stored ... people and ... family links.'
InfoResponse(parsed) ==
  [kind |-> "info", imported |-> 0, skipped |-> 0,
   people |-> SortStrings([i \in 1..Len(parsed.people) |-> parsed.people[i].name]),
   peopleCount |-> Len(parsed.people), familiesCount |-> Len(parsed.families),
   named |-> 0, persisted |-> {}]

\* the response after the events were stored, with the names of all the
\* parsed people as in the response when no event was parsed
SuccessResponseAllPeople(parsed, acc) ==
  [kind |-> "success", imported |-> acc.imported, skipped |-> acc.skipped,
   people |-> SortStrings([i \in 1..Len(parsed.people) |-> parsed.people[i].name]),
   peopleCount |-> Len(parsed.people), familiesCount |-> Len(parsed.families),
   named |-> Len(acc.peopleSet), persisted |-> acc.persisted]

\* the response after the events were stored; its message is the one of kind
\* "success": 'Successfully imported <imported> events for <named> people. ...'
\* persisted (not part of the response) holds the ids of the rows stored
SuccessResponse(parsed, acc) ==
  [kind |-> "success", imported |-> acc.imported, skipped |-> acc.skipped,
   people |-> SortStrings(acc.peopleSet),
   peopleCount |-> Len(parsed.people), familiesCount |-> Len(parsed.families),
   named |-> Len(acc.peopleSet), persisted |-> acc.persisted]

\* A slot holds one request: pc is where its handler stands ("free" before the
\* first request, "done" once it has responded); idx, cleaned, query, results
\* and wakeAt are the locals of geocodeAll and geocode.  progress is the list
\* of the calls (completed, unique.length) that geocodeAll makes to a progress
\* callback.  issued (the cache keys it started lookups for), failed (the
\* places whose lookup was rejected), trace (its lookups in their order:
\* the number of the place, the query, and what fetchJson settled with, or
\* <<>> while it has not) and prior (the mappings returned to the
\* imports of the same file that had completed when it started) are read by
\* the properties only.
FreeSlot ==
  [pc |-> "free", call |-> 0, user |-> 0, file |-> 0,
   idx |-> 0, cleaned |-> Null, query |-> Null,
   results |-> <<>>, wakeAt |-> 0, progress |-> <<>>,
   issued |-> {}, failed |-> {}, prior |-> {}, trace |-> <<>>,
   response |-> NoResponse]

\* the import handler and the geocoder before the first request
ServerIdle ==
  /\ now = StartTime
  /\ cache = <<>>
  /\ lastRequestTime = 0
  /\ req = [c \in Slots |-> FreeSlot]
  /\ db = EmptyDb
  /\ hist = [started |-> 0, lookups |-> 0, calls |-> {},
             latest |-> [u \in Users |-> [call |-> 0, file |-> 0]]]

Init ==
  /\ ServerIdle
  /\ date = NoDate
  /\ parse = NoParse
  /\ tree = NoTree

\* geocode, after the wait of the rate limit: the lookup of query starts
StartLookup(c, r, query) ==
  /\ lastRequestTime' = now
  /\ req' = [req EXCEPT ![c] =
       [r EXCEPT !.query = query,
                 !.issued = @ \cup {r.cleaned},
                 !.trace = Append(@, [at |-> r.idx, query |-> query, settled |-> <<>>])]]

\* the import of request c ends: the events are stored as acc tells and the
\* response is sent
Finish(c, r, acc, h, parsed) ==
  /\ db' = acc.db
  /\ req' = [req EXCEPT ![c] =
       [r EXCEPT !.pc = "done", !.response = SuccessResponse(parsed, acc)]]
  /\ hist' = [h EXCEPT !.calls = @ \cup {[file |-> r.file, results |-> r.results]}]
  /\ UNCHANGED lastRequestTime

\* geocodeAll of request c has come to place r.idx: past the last place the
\* import ends; a place to look up waits for the rate limit, or its lookup
\* starts at once
Arrive(c, r, d, cch, h, up) ==
  /\ cache' = cch
  /\ IF r.idx > Len(up.plan)
     THEN Finish(c, r,
                 PersistEvents([db |-> d, imported |-> 0, skipped |-> 0,
                                peopleSet |-> <<>>, persisted |-> {}],
                               r.user, up.parsed.events, r.results),
                 h, up.parsed)
     ELSE IF now - lastRequestTime < MinSpacing
     THEN /\ req' = [req EXCEPT ![c] =
               [r EXCEPT !.pc = "sleep1",
                         !.wakeAt = now + (MinSpacing - (now - lastRequestTime))]]
          /\ db' = d
          /\ hist' = h
          /\ UNCHANGED lastRequestTime
     ELSE /\ StartLookup(c, [r EXCEPT !.pc = "fetch1"], r.cleaned)
          /\ db' = d
          /\ hist' = [h EXCEPT !.lookups = @ + 1]

\* geocodeAll goes on from place r.idx of request c, with cache cch, tables d,
\* history h and the uploaded file up
Proceed(c, r, d, cch, h, up) == Arrive(c, geocodeAllFrom(r, cch, up.plan), d, cch, h, up)

\* the handler of request r from the parse of the uploaded file up on: the
\* raw entities are replaced; without events the response is sent, else
\* geocodeAll starts
Import(c, r, h, up) ==
  IF NoEvents(up.parsed)
  THEN /\ req' = [req EXCEPT ![c] =
            [r EXCEPT !.pc = "done", !.response = InfoResponse(up.parsed)]]
       /\ db' = ReplaceRaw(db, r.user, up.parsed)
       /\ hist' = h
       /\ UNCHANGED <<cache, lastRequestTime>>
  ELSE Proceed(c, r, ReplaceRaw(db, r.user, up.parsed), cache, h, up)

\* POST /import-gedcom of file f by user u, from the parse to the first wait
\* or, with nothing to wait for, to the response
StartImport(u, f) ==
  /\ hist.started < MaxImports
  /\ \E c \in Slots :
       /\ req[c].pc \in {"free", "done"}
       /\ \A b \in Slots : b < c => req[b].pc \notin {"free", "done"}
       /\ Import(c,
                 [FreeSlot EXCEPT
                    !.call = hist.started + 1, !.user = u, !.file = f, !.idx = 1,
                    !.prior = {k.results : k \in {x \in hist.calls : x.file = f}}],
                 [hist EXCEPT !.started = @ + 1,
                              !.latest[u] = [call |-> hist.started + 1, file |-> f]],
                 Uploads[f])
  /\ UNCHANGED <<now, date, parse, tree>>

\* geocode: the wait of the rate limit is over, the first lookup starts
Wake1(c) ==
  /\ req[c].pc = "sleep1"
  /\ now >= req[c].wakeAt
  /\ StartLookup(c, [req[c] EXCEPT !.pc = "fetch1"], req[c].cleaned)
  /\ hist' = [hist EXCEPT !.lookups = @ + 1]
  /\ UNCHANGED <<now, cache, db, date, parse, tree>>

\* the settlement that caches coordinates only, and no null
SettleUncached(c, r, coords, up) ==
  Proceed(c,
          [r EXCEPT !.idx = @ + 1,
                    !.progress = Append(@, <<r.idx, Len(up.plan)>>),
                    !.results = IF coords # <<>>
                                THEN MapSet(@, up.plan[r.idx].place, coords[1])
                                ELSE @],
          db, IF coords # <<>> THEN CacheSet(cache, r.cleaned, coords) ELSE cache, hist, up)

\* geocode returns coords (<<coordinates>>, or <<>> for null) for place
\* r.idx of request r in slot c: the cache is set, geocodeAll records the
\* coordinates it was given, reports the progress and goes on with the next
\* place
Settle(c, r, coords, up) ==
  Proceed(c,
          [r EXCEPT !.idx = @ + 1,
                    !.progress = Append(@, <<r.idx, Len(up.plan)>>),
                    !.results = IF coords # <<>>
                                THEN MapSet(@, up.plan[r.idx].place, coords[1])
                                ELSE @],
          db, CacheSet(cache, r.cleaned, coords), hist, up)

\* request r with the outcome resp of its lookup noted: a rejection (network
\* error, unparsable body, timeout) is caught by geocode
Caught(r, resp, up) ==
  [r EXCEPT !.failed = IF resp.ok THEN @ ELSE @ \cup {up.plan[r.idx].place},
            !.trace[Len(r.trace)].settled = <<resp>>]

\* the first lookup of request c has settled with resp
Settle1(c, resp, up) ==
  IF resp.ok /\ Len(resp.results) = 0 /\ up.plan[req[c].idx].fallback
  THEN /\ req' = [req EXCEPT ![c] =
            [Caught(req[c], resp, up) EXCEPT !.pc = "sleep2", !.wakeAt = now + MinSpacing]]
       /\ UNCHANGED <<cache, lastRequestTime, db, hist>>
  ELSE Settle(c, Caught(req[c], resp, up),
              IF resp.ok /\ Len(resp.results) > 0
              THEN <<FirstCandidate(resp.results)>> ELSE <<>>,
              up)

\* geocode: the first lookup settles with resp
Respond1(c, resp) ==
  /\ req[c].pc = "fetch1"
  /\ Settle1(c, resp, Uploads[req[c].file])
  /\ UNCHANGED <<now, date, parse, tree>>

\* geocode: the wait before the second attempt is over, the lookup of the
\* simplified place starts
Wake2(c) ==
  /\ req[c].pc = "sleep2"
  /\ now >= req[c].wakeAt
  /\ StartLookup(c, [req[c] EXCEPT !.pc = "fetch2"],
                 Uploads[req[c].file].plan[req[c].idx].simplified)
  /\ hist' = [hist EXCEPT !.lookups = @ + 1]
  /\ UNCHANGED <<now, cache, db, date, parse, tree>>

\* the second lookup of request c has settled with resp
Settle2(c, resp, up) ==
  Settle(c, Caught(req[c], resp, up),
         IF resp.ok /\ Len(resp.results) > 0
         THEN <<FirstCandidate(resp.results)>> ELSE <<>>,
         up)

\* geocode: the second lookup settles with resp
Respond2(c, resp) ==
  /\ req[c].pc = "fetch2"
  /\ Settle2(c, resp, Uploads[req[c].file])
  /\ UNCHANGED <<now, date, parse, tree>>

\* time passes
Tick ==
  /\ now + TickMs <= StartTime + MaxTicks * TickMs
  /\ now' = now + TickMs
  /\ UNCHANGED <<cache, lastRequestTime, req, db, hist, date, parse, tree>>

Next ==
  \/ \E u \in Users, f \in FileIds : StartImport(u, f)
  \/ \E c \in Slots : Wake1(c)
  \/ \E c \in Slots : \E resp \in Responses(req[c].query) : Respond1(c, resp)
  \/ \E c \in Slots : Wake2(c)
  \/ \E c \in Slots : \E resp \in Responses(req[c].query) : Respond2(c, resp)
  \/ Tick

Spec == Init /\ [][Next]_vars

----------------------------------------------------------------------------
(* utils/gedcomParser.js: calls of parseDate.  A call is made with a date   *)
(* text, bare or behind a qualifier and a space, and returns.               *)

UpperStr(s) == [i \in 1..Len(s) |-> toUpperCase(s[i])]

\* the first letter in upper case
Capitalised(s) == [i \in 1..Len(s) |-> IF i = 1 THEN toUpperCase(s[i]) ELSE s[i]]

\* the qualifier words and their abbreviations, bare and with a dot
QualifierWords == {
  <<"a","b","o","u","t">>, <<"c","i","r","c","a">>, <<"b","e","f","o","r","e">>, <<"a","f","t","e","r">>, <<"e","s","t","i","m","a","t","e","d">>, <<"c","a","l","c","u","l","a","t","e","d">>,
  <<"a","b","t">>, <<"b","e","f">>, <<"a","f","t">>, <<"e","s","t">>, <<"c","a","l">>,
  <<"a","b","t",".">>, <<"b","e","f",".">>, <<"a","f","t",".">>, <<"e","s","t",".">>, <<"c","a","l",".">> }

\* the qualifiers a call is made with, in three letter cases
QualifierTexts ==
  QualifierWords \cup {UpperStr(q) : q \in QualifierWords}
                 \cup {Capitalised(q) : q \in QualifierWords}

\* the date texts a call is made with
DateTexts == {
  <<"1","2"," ","O","c","t"," ","1","9","8","2">>, <<"0","1","-","F","e","b","-","1","8","3","7">>, <<"M","a","y"," ","1","2",","," ","1","8","0","5">>, <<"J","a","n"," ","1","9","0","0">>, <<"1","5","6","7">>,
  <<"A","b","t","."," ","1","7","5","6">>, <<"U","n","k","n","o","w","n">>, <<"B","E","T"," ","1","7","0","0"," ","A","N","D"," ","1","7","1","0">>,
  <<"5"," ","J","U","N"," ","1","8","3","5">>, <<"4","-","j","u","l","-","1","7","7","6">>, <<"O","c","t","o","b","e","r"," ","1","8","5","7">>, <<"M","a","r","c","h"," ","3"," ","1","8","0","1">>,
  <<"1","2"," ","S","m","a","r","c","h"," ","1","9","8","2">>, <<"c","o","n","s","t","r","u","c","t","o","r"," ","1","9","0","0">>, <<"7"," ","C","o","n","s","t","r","u","c","t","o","r"," ","1","9","0","0">>, <<>> }

\* the argument of the call
DateArg(d) ==
  IF d.qualifier = <<>> THEN d.text ELSE d.qualifier \o <<" ">> \o d.text

\* a call of parseDate is made
DateInit ==
  /\ date \in [qualifier : QualifierTexts \cup {<<>>}, text : DateTexts,
               returned : {FALSE}, result : {Null}]
  /\ parse = NoParse
  /\ tree = NoTree
  /\ ServerIdle

\* the call returns
ParseDateReturns ==
  /\ ~date.returned
  /\ date' = [date EXCEPT !.returned = TRUE, !.result = parseDate(DateArg(date))]
  /\ UNCHANGED <<parse, tree>>
  /\ UNCHANGED serverVars

DateNext == ParseDateReturns

DateSpec == DateInit /\ [][DateNext]_vars

----------------------------------------------------------------------------
(* utils/gedcomParser.js: a run of parseGedcomFull, line by line.  The text *)
(* starts with one of a few given heads and goes on with up to MaxLines     *)
(* lines; parse.lines are the lines the loop has read and parse.st its      *)
(* variables after them.  Collected(parse.st) is what parseGedcomFull       *)
(* returns for the text that ends here.                                     *)

MaxLines == 3

\* a person record with both name parts
HeadJohn == << <<"0"," ","@","I","1","@"," ","I","N","D","I">>, <<"1"," ","N","A","M","E"," ","j","o","h","n"," ","/","S","M","I","T","H","/">>, <<"2"," ","G","I","V","N"," ","j","o","h","n">>, <<"2"," ","S","U","R","N"," ","S","M","I","T","H">> >>

\* the same with a birth, the birth still the open event
HeadJohnBorn == HeadJohn \o << <<"1"," ","B","I","R","T">> >>

\* the same with a death date, the death still the open event
HeadJohnDied == HeadJohn \o << <<"1"," ","D","E","A","T">>, <<"2"," ","D","A","T","E"," ","0","1","-","F","e","b","-","1","8","3","7">> >>

\* a family record with husband, wife and a child
HeadFam == << <<"0"," ","@","F","1","@"," ","F","A","M">>, <<"1"," ","H","U","S","B"," ","@","I","1","@">>, <<"1"," ","W","I","F","E"," ","@","I","2","@">>, <<"1"," ","C","H","I","L"," ","@","I","2","@">> >>

\* the starts of the text
Heads == { <<>>, HeadJohn, HeadJohnBorn, HeadJohnDied, HeadFam }

\* the lines the text goes on with
LineTexts == {
  <<"0"," ","@","I","2","@"," ","I","N","D","I">>, <<"0"," ","@","F","1","@"," ","F","A","M">>, <<"1"," ","N","A","M","E"," ","M","a","r","y"," ","/","J","o","n","e","s","/">>, <<"2"," ","G","I","V","N"," ","m","a","r","y"," ","a","n","n">>,
  <<"1"," ","B","I","R","T">>, <<"1"," ","D","E","A","T">>, <<"1"," ","B","U","R","I">>, <<"2"," ","D","A","T","E"," ","1","2"," ","O","C","T"," ","1","9","8","2">>,
  <<"2"," ","P","L","A","C"," ","S","y","d","n","e","y",","," ","A","u","s","t","r","a","l","i","a">>, <<"2"," ","P","L","A","C"," ","?">>, <<"2"," ","P","L","A","C"," "," "," ">>,
  <<"g","a","r","b","a","g","e">>, <<"1"," "," ">>,
  <<"2"," ","D","A","T","E"," ","1","9","0","0">>, <<"1"," ","S","E","X"," ","f">>, <<"1"," ","H","U","S","B"," ","@","I","3","@">>, <<"1"," ","C","H","I","L"," ","@","I","3","@">> }

\* a run starts and reads the head of the text
ParseInit ==
  /\ \E head \in Heads :
       parse = [lines |-> head, st |-> ParseLines(ParserInit, head), left |-> MaxLines]
  /\ date = NoDate
  /\ tree = NoTree
  /\ ServerIdle

\* the loop reads the next line
ReadLine(line) ==
  /\ parse.left > 0
  /\ parse' = [lines |-> Append(parse.lines, line),
               st |-> ParseLine(parse.st, line),
               left |-> parse.left - 1]
  /\ UNCHANGED <<date, tree>>
  /\ UNCHANGED serverVars

ParseNext == \E line \in LineTexts : ReadLine(line)

ParseSpec == ParseInit /\ [][ParseNext]_vars

----------------------------------------------------------------------------
(* client/src/pages/Profile.jsx: buildGedcomTree and buildFamilyTree.       *)
(* A person or member is its id, 1..NumPeople; 0 stands for null.  The      *)
(* nodes of peopleMap and memberMap are shared objects: children[id] is     *)
(* the children array of the node of id, which holds references to nodes,   *)
(* so the tree that is returned is what cleanNode walks from the roots.     *)
(* A run is a call of one builder, step by step: the map, the links one by  *)
(* one, the roots, and the calls of cleanNode.                              *)

NumPeople == 3

MaxLinks == 2

\* the depth of calls at which the run is sure to be in a cycle of children
\* arrays, and the engine ends it with a RangeError
StackLimit == 5

Ids == 1..NumPeople

\* the lists of people or members a builder is called with
PeopleLists == { <<>>, <<1>>, <<1, 2>>, <<2, 1>>, <<1, 2, 3>> }

\* the families of the response of GET /gedcom-tree
FamilyRecords ==
  [husbandId : {0, 1, 2}, wifeId : {0, 3},
   childIds : { <<>>, <<1>>, <<2>>, <<3>>, <<2, 3>>, <<2, 2>> }]

\* the relationships of the response of the family tree request
RelationshipRecords ==
  [relationship : {"parent", "child", "spouse"}, user_id : Ids, related_user_id : Ids]

\* the lists of at most MaxLinks records
ListsOf(records) ==
  UNION {[1..n -> records] : n \in 0..MaxLinks}

\* a call of a builder
NewRun(builder, people, links) ==
  [pc |-> "start", builder |-> builder, people |-> people, links |-> links,
   i |-> 0, children |-> <<>>, hasParent |-> {}, spouse |-> <<>>,
   roots |-> <<>>, r |-> 0, stack |-> <<>>, visits |-> <<>>,
   result |-> "none", value |-> <<>>]

TreeInit ==
  /\ \/ \E people \in PeopleLists, links \in ListsOf(FamilyRecords) :
          tree = NewRun("gedcom", people, links)
     \/ \E people \in PeopleLists, links \in ListsOf(RelationshipRecords) :
          tree = NewRun("family", people, links)
  /\ date = NoDate
  /\ parse = NoParse
  /\ ServerIdle

\* peopleMap[id] is defined
Known(t, id) == id \in DOMAIN t.children

\* a list of ids in ascending order
RECURSIVE Ascending(_)
Ascending(ids) ==
  IF ids = {} THEN <<>>
  ELSE <<MinOf(ids)>> \o Ascending(ids \ {MinOf(ids)})

\* Object.values of the map: the nodes in the order of their keys, which for
\* the gedcom ids (texts like @I1@) is the order of insertion and for the
\* member ids (integers) the ascending order
MapOrder(t) ==
  IF t.builder = "gedcom" THEN t.people ELSE Ascending(Range(t.people))

\* the builder returns null for no people, or else makes the map of nodes
Start ==
  /\ tree.pc = "start"
  /\ tree' = IF tree.people = <<>>
             THEN [tree EXCEPT !.pc = "done", !.result = "null"]
             ELSE [tree EXCEPT
                     !.pc = "link", !.i = 1,
                     !.children = [id \in Range(tree.people) |-> <<>>],
                     !.spouse = [id \in Range(tree.people) |-> 0],
                     !.visits = [id \in Range(tree.people) |-> 0]]
  /\ UNCHANGED <<date, parse>>
  /\ UNCHANGED serverVars

\* the children of a family that are attached: those with a node
Attached(t, childIds) == SelectSeq(childIds, LAMBDA id : Known(t, id))

\* buildGedcomTree, one family fam with the parent parentId: the wife becomes
\* the spouse of the husband when both have nodes (with her years, which the
\* model leaves out), and the children with nodes go under the parent
LinkFam(t, fam, parentId) ==
  [t EXCEPT
     !.i = @ + 1,
     !.spouse = IF fam.husbandId # 0 /\ fam.wifeId # 0
                   /\ Known(t, fam.husbandId) /\ Known(t, fam.wifeId)
                THEN [@ EXCEPT ![fam.husbandId] = fam.wifeId] ELSE @,
     !.children = IF parentId # 0 /\ Known(t, parentId)
                  THEN [@ EXCEPT ![parentId] = @ \o Attached(t, fam.childIds)] ELSE @,
     !.hasParent = IF parentId # 0 /\ Known(t, parentId)
                   THEN @ \cup Range(Attached(t, fam.childIds)) ELSE @]

\* buildGedcomTree: one iteration of the loop over the families
LinkGedcom ==
  /\ tree.pc = "link"
  /\ tree.builder = "gedcom"
  /\ tree.i <= Len(tree.links)
  /\ tree' = LinkFam(tree, tree.links[tree.i],
                     IF tree.links[tree.i].husbandId # 0
                     THEN tree.links[tree.i].husbandId ELSE tree.links[tree.i].wifeId)
  /\ UNCHANGED <<date, parse>>
  /\ UNCHANGED serverVars

\* a variant that would also attach on an edge typed child, the child being
\* the source of the edge
LinkRelBothWays(t, rel, both) ==
  [t EXCEPT
     !.i = @ + 1,
     !.children = IF rel.relationship = "parent" /\ both
                  THEN [@ EXCEPT ![rel.user_id] = Append(@, rel.related_user_id)]
                  ELSE IF rel.relationship = "child" /\ both
                  THEN [@ EXCEPT ![rel.related_user_id] = Append(@, rel.user_id)] ELSE @,
     !.hasParent = IF rel.relationship = "parent" /\ both
                   THEN @ \cup {rel.related_user_id}
                   ELSE IF rel.relationship = "child" /\ both
                   THEN @ \cup {rel.user_id} ELSE @,
     !.spouse = IF rel.relationship = "spouse" /\ both /\ t.spouse[rel.user_id] = 0
                THEN [@ EXCEPT ![rel.user_id] = rel.related_user_id] ELSE @]

\* buildFamilyTree, one relationship rel
LinkRel(t, rel, both) ==
  [t EXCEPT
     !.i = @ + 1,
     !.children = IF rel.relationship = "parent" /\ both
                  THEN [@ EXCEPT ![rel.user_id] = Append(@, rel.related_user_id)] ELSE @,
     !.hasParent = IF rel.relationship = "parent" /\ both
                   THEN @ \cup {rel.related_user_id} ELSE @,
     !.spouse = IF rel.relationship = "spouse" /\ both /\ t.spouse[rel.user_id] = 0
                THEN [@ EXCEPT ![rel.user_id] = rel.related_user_id] ELSE @]

\* buildFamilyTree: one iteration of the loop over the relationships
LinkFamily ==
  /\ tree.pc = "link"
  /\ tree.builder = "family"
  /\ tree.i <= Len(tree.links)
  /\ tree' = LinkRel(tree, tree.links[tree.i],
                     Known(tree, tree.links[tree.i].user_id)
                       /\ Known(tree, tree.links[tree.i].related_user_id))
  /\ UNCHANGED <<date, parse>>
  /\ UNCHANGED serverVars

\* the call cleanNode(id) is made
Called(t, id) ==
  [t EXCEPT !.stack = Append(@, [node |-> id, k |-> 1]),
            !.visits[id] = @ + 1]

\* the roots are found; without a root the builder returns null, else it
\* calls cleanNode for the first root
RootsFound(t, roots) ==
  IF roots = <<>>
  THEN [t EXCEPT !.pc = "done", !.result = "null"]
  ELSE Called([t EXCEPT !.pc = "clean", !.roots = roots, !.r = 1], roots[1])

\* Object.values(map).filter(p => !p._hasParent)
FindRoots ==
  /\ tree.pc = "link"
  /\ tree.i > Len(tree.links)
  /\ tree' = RootsFound(tree, SelectSeq(MapOrder(tree), LAMBDA id : id \notin tree.hasParent))
  /\ UNCHANGED <<date, parse>>
  /\ UNCHANGED serverVars

\* the call of cleanNode on top of the stack, of frame top, goes on: it
\* calls cleanNode for its next child, if the stack has room for the call
CleanNext(t, top) ==
  IF Len(t.stack) >= StackLimit
  THEN [t EXCEPT !.pc = "overflow", !.result = "RangeError"]
  ELSE Called([t EXCEPT !.stack[Len(t.stack)].k = @ + 1], t.children[top.node][top.k])

\* cleanNode: node.children.forEach(cleanNode), the next child
CleanChild ==
  /\ tree.pc = "clean"
  /\ tree.stack[Len(tree.stack)].k <= Len(tree.children[tree.stack[Len(tree.stack)].node])
  /\ tree' = CleanNext(tree, tree.stack[Len(tree.stack)])
  /\ UNCHANGED <<date, parse>>
  /\ UNCHANGED serverVars

\* the label of the virtual root of a builder
RootName(builder) == IF builder = "gedcom" THEN "Ancestors" ELSE "Family"

\* the virtual root above several roots
VirtualRoot(t) ==
  [name |-> RootName(t.builder), attributes |-> {}, children |-> t.roots]

\* a call of cleanNode has returned and left the stack rest: the call below
\* goes on; after the call for a root the next root follows, and after the
\* last root the builder returns the one root, or the virtual root above
\* several
Returned1(t, rest) ==
  IF rest # <<>> THEN [t EXCEPT !.stack = rest]
  ELSE IF t.r < Len(t.roots)
    THEN Called([t EXCEPT !.stack = rest, !.r = @ + 1], t.roots[t.r + 1])
  ELSE IF Len(t.roots) = 1
    THEN [t EXCEPT !.stack = rest, !.pc = "done", !.result = "root",
                   !.value = [node |-> t.roots[1]]]
  ELSE [t EXCEPT !.stack = rest, !.pc = "done", !.result = "virtual",
                 !.value = VirtualRoot(t)]

\* cleanNode: return node
CleanReturn ==
  /\ tree.pc = "clean"
  /\ tree.stack[Len(tree.stack)].k > Len(tree.children[tree.stack[Len(tree.stack)].node])
  /\ tree' = Returned1(tree, SubSeq(tree.stack, 1, Len(tree.stack) - 1))
  /\ UNCHANGED <<date, parse>>
  /\ UNCHANGED serverVars

TreeNext ==
  \/ Start
  \/ LinkGedcom
  \/ LinkFamily
  \/ FindRoots
  \/ CleanChild
  \/ CleanReturn

TreeSpec == TreeInit /\ [][TreeNext]_vars

----------------------------------------------------------------------------
(* The family routes: POST /relationships, DELETE /relationships/:id and    *)
(* GET /tree, and the live tree that Profile.jsx builds from the response.  *)
(* There is one family, of the members 1..NumPeople with the host Host;     *)
(* the account Outsider belongs to no family.                               *)

MaxRequests == 3

FamilyId == 1

Host == 1

Members == 1..NumPeople

Outsider == NumPeople + 1

Accounts == Members \cup {Outsider}

\* userQueries.findById(id).family_id, 0 for null
FamilyOf(account) == IF account \in Members THEN FamilyId ELSE 0

\* the relationship that POST /relationships stores for the other direction
inverseMap(relationship) ==
  IF relationship = "parent" THEN "child"
  ELSE IF relationship = "child" THEN "parent"
  ELSE "spouse"

\* POST /relationships is refused: a field is missing (0), the relationship
\* is not a valid one, the requester has no family or is not its host, or
\* one of the two users is not of the family
SetRefused(requester, userId, relatedUserId, relationship) ==
  \/ userId = 0
  \/ relatedUserId = 0
  \/ relationship \notin {"parent", "child", "spouse"}
  \/ FamilyOf(requester) = 0
  \/ requester # Host
  \/ FamilyOf(userId) # FamilyId
  \/ FamilyOf(relatedUserId) # FamilyId

\* POST /relationships, accepted: the rows of the pair are removed, and the
\* relationship and its inverse are stored
SetStored(d, userId, relatedUserId, relationship) ==
  familyRelationshipCreate(
    familyRelationshipCreate(deleteByPair(d, FamilyId, userId, relatedUserId),
                             FamilyId, userId, relatedUserId, relationship),
    FamilyId, relatedUserId, userId, inverseMap(relationship))

FamilyVars == <<now, cache, lastRequestTime, req, hist, date, parse>>

\* POST /api/family/relationships
SetRelationship(requester, userId, relatedUserId, relationship) ==
  /\ tree = NoTree
  /\ db.seq.family_relationships < 2 * MaxRequests
  /\ db' = IF SetRefused(requester, userId, relatedUserId, relationship)
           THEN db
           ELSE SetStored(db, userId, relatedUserId, relationship)
  /\ UNCHANGED tree
  /\ UNCHANGED FamilyVars

\* DELETE /relationships/:id, accepted: the rows of the pair of rel are removed
DeleteStored(d, rel) == deleteByPair(d, FamilyId, rel.user_id, rel.related_user_id)

\* DELETE /api/family/relationships/:id; without a row of the id the
\* answer is 404, and a requester who is not the host is refused
DeleteRelationship(requester, relId) ==
  /\ tree = NoTree
  /\ db' = IF FamilyOf(requester) = 0 \/ requester # Host
              \/ \A k \in 1..Len(db.family_relationships) : db.family_relationships[k].id # relId
           THEN db
           ELSE DeleteStored(db, CHOOSE r \in Range(db.family_relationships) : r.id = relId)
  /\ UNCHANGED tree
  /\ UNCHANGED FamilyVars

\* familyQueries.getMembers: the users of the family, in rowid order
getMembers(familyId) ==
  IF familyId = FamilyId THEN [k \in 1..NumPeople |-> k] ELSE <<>>

\* GET /api/family/tree by a member, and buildFamilyTree of the response
GetFamilyTree ==
  /\ tree = NoTree
  /\ tree' = NewRun("family", getMembers(FamilyId), findByFamilyId(db, FamilyId))
  /\ UNCHANGED db
  /\ UNCHANGED FamilyVars

FamilyInit ==
  /\ ServerIdle
  /\ date = NoDate
  /\ parse = NoParse
  /\ tree = NoTree

FamilyNext ==
  \/ \E requester \in Accounts, userId \in {0} \cup Accounts, relatedUserId \in {0} \cup Accounts,
        relationship \in {"parent", "child", "spouse", "sibling"} :
       SetRelationship(requester, userId, relatedUserId, relationship)
  \/ \E requester \in Accounts, relId \in 1..(2 * MaxRequests) :
       DeleteRelationship(requester, relId)
  \/ GetFamilyTree
  \/ Start
  \/ LinkFamily
  \/ FindRoots
  \/ CleanChild
  \/ CleanReturn

FamilySpec == FamilyInit /\ [][FamilyNext]_vars

----------------------------------------------------------------------------
(* routes/events.js with several owners: POST /events, POST /import-gedcom  *)
(* and DELETE /gedcom.  The import handler runs in two steps, before and    *)
(* after its await of geocodeAll, which settles with coordinates for some   *)
(* of the places; other requests are served in between.  hist holds the     *)
(* number of the imports started and of the clears, and the last request    *)
(* served with the owner who made it.                                       *)

NumOwners == 2

OwnerImports == 2

MaxManual == 1

MaxClears == 1

Owners == 1..NumOwners

\* the files the owners import: FileJohn and FileFamily
OwnerFiles == {1, 4}

\* the coordinates geocodeAll has for the place of a plan entry when it has
\* any
CoordsOf(entry) == FirstCandidate(<<Gazetteer(entry.cleaned)>>)

\* what geocodeAll can settle with for the places of plan: a map with the
\* coordinates of some of the places that clean to a text
ResultMaps(plan) ==
  {[p \in {plan[k].place : k \in ks} |->
      CoordsOf(CHOOSE e \in Range(plan) : e.place = p)] :
     ks \in SUBSET {k \in 1..Len(plan) : plan[k].cleaned # Null}}

OwnerInit ==
  /\ now = StartTime
  /\ cache = <<>>
  /\ lastRequestTime = 0
  /\ req = [c \in Slots |-> FreeSlot]
  /\ db = EmptyDb
  /\ hist = [started |-> 0, clears |-> 0, last |-> [op |-> "none", user |-> 0]]
  /\ date = NoDate
  /\ parse = NoParse
  /\ tree = NoTree

OwnerVars == <<now, cache, lastRequestTime, date, parse, tree>>

\* POST /api/events by owner u
CreateEvent(u) ==
  /\ Len(SelectSeq(db.events, LAMBDA r : r.source = "manual")) < MaxManual
  /\ db' = eventCreate(db, u, <<"T", "r", "i", "p">>, Null,
                       <<"2", "0", "0", "1", "-", "0", "1", "-", "0", "1">>, Null,
                       ParseFloat(<<"1", ".", "0">>), ParseFloat(<<"2", ".", "0">>), "other")
  /\ hist' = [hist EXCEPT !.last = [op |-> "create", user |-> u]]
  /\ UNCHANGED req
  /\ UNCHANGED OwnerVars

\* POST /import-gedcom of the uploaded file up, number f, by owner u in slot
\* c, as far as the await of geocodeAll: the raw entities are replaced, and
\* without events the response is sent
ImportBegun(c, u, f, up) ==
  /\ db' = ReplaceRaw(db, u, up.parsed)
  /\ req' = IF NoEvents(up.parsed) THEN req
            ELSE [req EXCEPT ![c] = [FreeSlot EXCEPT !.pc = "geocode", !.user = u, !.file = f]]
  /\ hist' = [hist EXCEPT !.started = @ + 1, !.last = [op |-> "import", user |-> u]]

BeginImport(u, f) ==
  /\ hist.started < OwnerImports
  /\ \E c \in Slots :
       /\ req[c].pc = "free"
       /\ \A b \in Slots : b < c => req[b].pc # "free"
       /\ ImportBegun(c, u, f, Uploads[f])
  /\ UNCHANGED OwnerVars

\* the import of slot c goes on after geocodeAll has settled with geocoded:
\* the events with coordinates are stored and the response is sent
ImportEnded(c, r, up, geocoded) ==
  /\ db' = PersistEvents([db |-> db, imported |-> 0, skipped |-> 0,
                          peopleSet |-> <<>>, persisted |-> {}],
                         r.user, up.parsed.events, geocoded).db
  /\ req' = [req EXCEPT ![c] = FreeSlot]
  /\ hist' = [hist EXCEPT !.last = [op |-> "persist", user |-> r.user]]

EndImport(c) ==
  /\ req[c].pc = "geocode"
  /\ \E geocoded \in ResultMaps(Uploads[req[c].file].plan) :
       ImportEnded(c, req[c], Uploads[req[c].file], geocoded)
  /\ UNCHANGED OwnerVars

\* DELETE /api/events/gedcom by owner u
ClearGedcom(u) ==
  /\ hist.clears < MaxClears
  /\ db' = deleteByUserIdAndSource(
             gedcomPeopleDeleteByUserId(gedcomFamilyDeleteByUserId(db, u), u), u, "gedcom")
  /\ hist' = [hist EXCEPT !.clears = @ + 1, !.last = [op |-> "clear", user |-> u]]
  /\ UNCHANGED req
  /\ UNCHANGED OwnerVars

OwnerNext ==
  \/ \E u \in Owners : CreateEvent(u)
  \/ \E u \in Owners, f \in OwnerFiles : BeginImport(u, f)
  \/ \E c \in Slots : EndImport(c)
  \/ \E u \in Owners : ClearGedcom(u)

OwnerSpec == OwnerInit /\ [][OwnerNext]_vars

----------------------------------------------------------------------------
(* What the properties read *)

\* request c has responded
Done(c) == req[c].pc = "done"

\* request c is between its start and its response
InProgress(c) == req[c].pc \notin {"free", "done"}

\* value || null
OrNull(x) == IF Truthy(x) THEN x ELSE Null

\* the people stored for a user, in rowid order, without the rowids
StoredPeople(d, userId) ==
  LET rows == PeopleOf(d, userId)
  IN  [i \in 1..Len(rows) |->
         [gedcomId |-> rows[i].gedcom_id, name |-> rows[i].name,
          sex |-> rows[i].sex,
          birthDate |-> rows[i].birth_date, birthPlace |-> rows[i].birth_place,
          deathDate |-> rows[i].death_date, deathPlace |-> rows[i].death_place]]

\* the families stored for a user with their child lists, in rowid order
StoredFamilies(d, userId) ==
  LET rows == FamiliesOf(d, userId)
  IN  [i \in 1..Len(rows) |->
         [gedcomFamId |-> rows[i].gedcom_fam_id,
          husbandId |-> rows[i].husband_gedcom_id,
          wifeId |-> rows[i].wife_gedcom_id,
          childIds |-> LET kids == ChildrenOf(d, rows[i].id)
                       IN  [j \in 1..Len(kids) |-> kids[j].child_gedcom_id]]]

\* the people parsed from file f, as they are to be stored
ParsedPeople(f) ==
  LET people == Parsed[f].people
  IN  [i \in 1..Len(people) |->
         [gedcomId |-> people[i].gedcomId, name |-> people[i].name,
          sex |-> OrNull(people[i].sex),
          birthDate |-> OrNull(people[i].birthDate),
          birthPlace |-> OrNull(people[i].birthPlace),
          deathDate |-> OrNull(people[i].deathDate),
          deathPlace |-> OrNull(people[i].deathPlace)]]

\* the families parsed from file f, as they are to be stored
ParsedFamilies(f) ==
  LET families == Parsed[f].families
  IN  [i \in 1..Len(families) |->
         [gedcomFamId |-> families[i].gedcomFamId,
          husbandId |-> OrNull(families[i].husbandId),
          wifeId |-> OrNull(families[i].wifeId),
          childIds |-> families[i].childIds]]

\* every child row belongs to a family row
NoOrphans(d) ==
  \A k \in 1..Len(d.gedcom_children) :
    \E i \in 1..Len(d.gedcom_families) :
      d.gedcom_families[i].id = d.gedcom_children[k].gedcom_family_id

\* the raw entities stored for the user are those of file f and no others
RawIsFile(d, userId, f) ==
  /\ StoredPeople(d, userId) = ParsedPeople(f)
  /\ StoredFamilies(d, userId) = ParsedFamilies(f)
  /\ NoOrphans(d)

\* the event rows that request c stored
RowsOf(c) == SelectSeq(db.events, LAMBDA r : r.id \in req[c].response.persisted)

\* the events derived for request c
DerivedOf(c) == Parsed[req[c].file].events

\* row is the application event of the derived event evt of request c
IsRowOf(row, evt, c) ==
  /\ evt.place \in DOMAIN req[c].results
  /\ row.user_id = req[c].user
  /\ row.title = evt.title
  /\ row.description = OrNull(evt.description)
  /\ row.event_date = evt.date
  /\ row.end_date = Null
  /\ row.latitude = req[c].results[evt.place].lat
  /\ row.longitude = req[c].results[evt.place].lon
  /\ row.category = evt.category
  /\ row.source = "gedcom"

\* the number of rows that request c stored for its i-th derived event
RowCount(c, i) ==
  Cardinality({k \in 1..Len(RowsOf(c)) : IsRowOf(RowsOf(c)[k], DerivedOf(c)[i], c)})

\* the names of the persons with an event that request c stored
PersistedNames(c) ==
  {DerivedOf(c)[i].name : i \in {k \in 1..Len(DerivedOf(c)) : RowCount(c, k) > 0}}

\* the number of the derived events of request c whose place resolveAll
\* returned no coordinates for
Unresolved(c) ==
  Cardinality({i \in 1..Len(DerivedOf(c)) :
                 DerivedOf(c)[i].place \notin DOMAIN req[c].results})

\* the parsed people of file f with a birth that has a parsable date and the
\* place "?"
QuestionBirths(f) ==
  {i \in 1..Len(Parsed[f].people) :
     /\ Parsed[f].people[i].birthDate # Null
     /\ Parsed[f].people[i].birthPlace = <<"?">>}

----------------------------------------------------------------------------
(* C1 *)

\* C1: any two outbound lookups, first attempts and second attempts alike,
\* of one request or of several, are started at least MinSpacing ms apart.
\* Every lookup sets lastRequestTime to its start, so before a lookup starts
\* lastRequestTime is the start of the lookup before it (0: there was none).
LookupsSpaced ==
  [][hist'.lookups = hist.lookups + 1
       => (lastRequestTime = 0 \/ now' - lastRequestTime >= MinSpacing)]_vars

----------------------------------------------------------------------------
(* C2 *)

\* C2: a place (cache key) is never looked up on behalf of two requests
NoDuplicateLookups ==
  \A c, d \in Slots : c # d => req[c].issued \cap req[d].issued = {}

----------------------------------------------------------------------------
(* C3 *)

\* C3: a resolveAll of a list of places that an earlier resolveAll of the
\* same list had completed before starts no lookup and returns a mapping
\* equal to the earlier one
ResolveAllIdempotent ==
  \A c \in Slots :
    Done(c) /\ req[c].prior # {}
      => /\ req[c].issued = {}
         /\ \A m \in req[c].prior : req[c].results = m

----------------------------------------------------------------------------
(* C4 *)

\* C4: when the latest import of an owner has completed and no other import
\* of that owner is in progress, the owner's raw entities and imported events
\* are exactly those of that import
ReimportReplacesAll ==
  \A c \in Slots :
    (/\ Done(c)
     /\ hist.latest[req[c].user].call = req[c].call
     /\ \A d \in Slots : InProgress(d) => req[d].user # req[c].user)
      => /\ RawIsFile(db, req[c].user, req[c].file)
         /\ {r.id : r \in Range(EventsOfUser(db, req[c].user, "gedcom"))}
              = req[c].response.persisted

----------------------------------------------------------------------------
(* C5 *)

\* C5: the people and families (with their child lists) stored for an owner
\* are exactly those parsed from the file of the owner's latest import, with
\* nothing left from earlier imports
RawEntitiesReplaced ==
  \A u \in Users :
    hist.latest[u].call # 0 => RawIsFile(db, u, hist.latest[u].file)

\* a file with a family and its children has been imported after an earlier
\* import
RawEntitiesReplacedWitness ==
  \E u \in Users :
    /\ hist.latest[u].call >= 2
    /\ Len(StoredFamilies(db, u)) > 0
    /\ Len(StoredFamilies(db, u)[1].childIds) > 1
    /\ Len(StoredPeople(db, u)) > 1

----------------------------------------------------------------------------
(* C6 *)

\* C6: in an import that derived events, a derived event is stored as
\* exactly one application event if resolveAll returned coordinates for its
\* place and as none otherwise; imported is the number stored, skipped the
\* number not stored, and together they are the number of derived events
PersistedIffGeocoded ==
  \A c \in Slots :
    Done(c) /\ req[c].response.kind = "success"
      => /\ \A i \in 1..Len(DerivedOf(c)) :
              RowCount(c, i) =
                IF DerivedOf(c)[i].place \in DOMAIN req[c].results THEN 1 ELSE 0
         /\ \A k \in 1..Len(RowsOf(c)) :
              \E i \in 1..Len(DerivedOf(c)) : IsRowOf(RowsOf(c)[k], DerivedOf(c)[i], c)
         /\ req[c].response.imported = Len(RowsOf(c))
         /\ req[c].response.imported = Cardinality(req[c].response.persisted)
         /\ req[c].response.skipped = Unresolved(c)
         /\ req[c].response.imported + req[c].response.skipped = Len(DerivedOf(c))

\* an import has completed with an event stored and an event skipped
PersistedIffGeocodedWitness ==
  \E c \in Slots :
    /\ Done(c)
    /\ req[c].response.imported >= 1
    /\ req[c].response.skipped >= 1

----------------------------------------------------------------------------
(* C7 *)

\* C7: an import that derives no event responds at once with imported = 0,
\* skipped = 0 and the message of its own, has stored the parsed people and
\* families, and leaves the geocoder alone: no lookup, cache and
\* lastRequestTime unchanged
ZeroEventImport ==
  [][\A c \in Slots :
       (req'[c].call # req[c].call /\ Len(Parsed[req'[c].file].events) = 0)
         => /\ req'[c].pc = "done"
            /\ req'[c].response.kind = "info"
            /\ req'[c].response.imported = 0
            /\ req'[c].response.skipped = 0
            /\ req'[c].response.peopleCount = Len(Parsed[req'[c].file].people)
            /\ req'[c].response.familiesCount = Len(Parsed[req'[c].file].families)
            /\ RawIsFile(db', req'[c].user, req'[c].file)
            /\ req'[c].issued = {}
            /\ hist'.lookups = hist.lookups
            /\ cache' = cache
            /\ lastRequestTime' = lastRequestTime
            /\ db'.events = db.events]_vars

\* an import without events has responded and its person is stored
ZeroEventImportWitness ==
  \E c \in Slots :
    /\ Done(c)
    /\ Len(DerivedOf(c)) = 0
    /\ req[c].response.peopleCount > 0
    /\ Len(StoredPeople(db, req[c].user)) = req[c].response.peopleCount

----------------------------------------------------------------------------
(* C8 *)

\* C8 as stated: in every import result, the zero-event result too, people
\* is the set of the names of the persons with an event the import stored
PeopleArePersisted ==
  \A c \in Slots :
    Done(c) => Range(req[c].response.people) = PersistedNames(c)

\* C8 amended: in the result of an import that derived events, people holds
\* the names of the persons with an event the import stored, each once; in
\* the zero-event result it holds the name of every parsed person, one entry
\* per person
PeopleByResult ==
  \A c \in Slots :
    Done(c) =>
      LET people == req[c].response.people
          parsed == Parsed[req[c].file].people
      IN  IF req[c].response.kind = "success"
          THEN /\ Range(people) = PersistedNames(c)
               /\ Len(people) = Cardinality(PersistedNames(c))
               /\ req[c].response.named = Len(people)
          ELSE /\ Len(people) = Len(parsed)
               /\ \A i \in 1..Len(parsed) :
                    Cardinality({k \in 1..Len(people) : people[k] = parsed[i].name})
                      = Cardinality({k \in 1..Len(parsed) : parsed[k].name = parsed[i].name})
               /\ PersistedNames(c) = {}

\* a zero-event result that names a person, and a result of an import that
\* stored events of one of its two persons only
PeopleByResultWitness ==
  /\ \E c \in Slots :
       Done(c) /\ req[c].response.kind = "info" /\ Len(req[c].response.people) > 0
  /\ \E c \in Slots :
       /\ Done(c)
       /\ req[c].response.kind = "success"
       /\ req[c].response.named = 1
       /\ req[c].response.peopleCount = 2

----------------------------------------------------------------------------
(* C9 *)

\* C9 as stated: a birth with a parsable date and the place "?" is counted
\* as skipped, and no lookup is started for it
QuestionBirthSkipped ==
  \A c \in Slots :
    Done(c) /\ QuestionBirths(req[c].file) # {}
      => /\ req[c].response.skipped
              = Unresolved(c) + Cardinality(QuestionBirths(req[c].file))
         /\ <<"?">> \notin req[c].issued

\* C9 amended: a birth with a parsable date and the place "?" derives no
\* event, so that it is counted neither as imported nor as skipped, and no
\* lookup is started for it
QuestionBirthNotDerived ==
  \A c \in Slots :
    Done(c) /\ QuestionBirths(req[c].file) # {}
      => /\ \A i \in QuestionBirths(req[c].file) :
              \A k \in 1..Len(DerivedOf(c)) :
                ~(/\ DerivedOf(c)[k].type = "birth"
                  /\ DerivedOf(c)[k].name = Parsed[req[c].file].people[i].name)
         /\ \A k \in 1..Len(DerivedOf(c)) : DerivedOf(c)[k].place # <<"?">>
         /\ req[c].response.skipped = Unresolved(c)
         /\ req[c].response.imported = Len(DerivedOf(c)) - Unresolved(c)
         /\ <<"?">> \notin req[c].issued
         /\ <<"?">> \notin DOMAIN cache
         /\ <<"?">> \notin DOMAIN req[c].results

\* an import of a file with such a birth has completed, having stored
\* another event
QuestionBirthNotDerivedWitness ==
  \E c \in Slots :
    /\ Done(c)
    /\ QuestionBirths(req[c].file) # {}
    /\ req[c].response.imported >= 1

----------------------------------------------------------------------------
(* C10 *)

\* the text has all the given lines
RECURSIVE HasLines(_, _)
HasLines(text, lines) ==
  \/ lines = <<>>
  \/ /\ Head(lines) \in Range(SplitLines(text))
     /\ HasLines(text, Tail(lines))

RECURSIVE WithLines(_, _)
WithLines(files, lines) ==
  IF files = <<>> THEN <<>>
  ELSE <<HasLines(Head(files), lines)>> \o WithLines(Tail(files), lines)

\* JohnRecord[f]: file f holds the record of the example, a person named
\* "John /Smith/" born 12 OCT 1982 in Sydney, Australia
JohnRecord ==
  WithLines(Files, <<<<"1"," ","N","A","M","E"," ","J","o","h","n"," ","/","S","m","i","t","h","/">>, <<"2"," ","D","A","T","E"," ","1","2"," ","O","C","T"," ","1","9","8","2">>,
                     <<"2"," ","P","L","A","C"," ","S","y","d","n","e","y",","," ","A","u","s","t","r","a","l","i","a">>>>)

\* JohnParts[f]: file f gives the parts of the name on GIVN and SURN lines
JohnParts == WithLines(Files, <<<<"2"," ","G","I","V","N"," ","J","o","h","n">>, <<"2"," ","S","U","R","N"," ","S","m","i","t","h">>>>)

Sydney == <<"S","y","d","n","e","y",","," ","A","u","s","t","r","a","l","i","a">>

\* { lat: -33.8, lon: 151.2 }
SydneyCoords ==
  [lat |-> [nan |-> FALSE, tenths |-> -338],
   lon |-> [nan |-> FALSE, tenths |-> 1512]]

\* the result and the stored event of the example
JohnOutcome(c) ==
  /\ req[c].response.imported = 1
  /\ req[c].response.skipped = 0
  /\ req[c].response.people = <<<<"J","o","h","n"," ","S","m","i","t","h">>>>
  /\ Len(RowsOf(c)) = 1
  /\ RowsOf(c)[1].title = <<"J","o","h","n"," ","S","m","i","t","h"," ","-"," ","B","i","r","t","h">>
  /\ RowsOf(c)[1].category = "birth"
  /\ RowsOf(c)[1].latitude = SydneyCoords.lat
  /\ RowsOf(c)[1].longitude = SydneyCoords.lon

\* C10 as stated: the import of the record named "John /Smith/", when the
\* geocoder resolves Sydney, Australia to the coordinates (for the import,
\* or, where the import did not ask, in its cache), returns imported = 1,
\* skipped = 0, people = ["John Smith"] and stores the one event
JohnSmithByName ==
  \A c \in Slots :
    (/\ Done(c)
     /\ JohnRecord[req[c].file]
     /\ IF Sydney \in DOMAIN req[c].results
        THEN req[c].results[Sydney] = SydneyCoords
        ELSE /\ Plan[req[c].file] = <<>>
             /\ Sydney \in DOMAIN cache
             /\ cache[Sydney] = <<SydneyCoords>>)
      => JohnOutcome(c)

\* C10 amended: the import of the record whose NAME line is "John /Smith/"
\* and whose GIVN and SURN lines are John and Smith, when the geocoder
\* resolves Sydney, Australia to the coordinates for it, returns
\* imported = 1, skipped = 0, people = ["John Smith"] and stores the one event
JohnSmithByParts ==
  \A c \in Slots :
    (/\ Done(c)
     /\ JohnRecord[req[c].file]
     /\ JohnParts[req[c].file]
     /\ Sydney \in DOMAIN req[c].results
     /\ req[c].results[Sydney] = SydneyCoords)
      => JohnOutcome(c)

\* the import of the record with GIVN and SURN lines has completed with
\* Sydney resolved
JohnSmithByPartsWitness ==
  \E c \in Slots :
    /\ Done(c)
    /\ JohnRecord[req[c].file]
    /\ JohnParts[req[c].file]
    /\ Sydney \in DOMAIN req[c].results
    /\ req[c].results[Sydney] = SydneyCoords
    /\ Len(RowsOf(c)) = 1

----------------------------------------------------------------------------
(* C11 *)

\* the cache key of place p of the file of request c
KeyOf(c, p) ==
  (CHOOSE e \in Range(Plan[req[c].file]) : e.place = p).cleaned

\* the result of request c is the normal one, and of its derived events
\* exactly those at a place without coordinates are skipped
NormalResult(c) ==
  /\ req[c].response.kind = "success"
  /\ req[c].response.imported + req[c].response.skipped = Len(DerivedOf(c))
  /\ req[c].response.skipped = Unresolved(c)
  /\ \A i \in 1..Len(DerivedOf(c)) :
       RowCount(c, i) =
         IF DerivedOf(c)[i].place \in DOMAIN req[c].results THEN 1 ELSE 0

\* C11: a lookup that is rejected (network error, unparsable response,
\* timeout) does not propagate: at the rejection null is cached for the
\* place and geocodeAll goes on with the next place; the place gets no
\* coordinates, and the import completes with the normal result, in which
\* the events at places with coordinates are stored and only the others are
\* skipped
LookupFailureSkips ==
  /\ [](\A c \in Slots : \A p \in req[c].failed :
          /\ p \notin DOMAIN req[c].results
          /\ req[c].pc \in {"sleep1", "fetch1", "sleep2", "fetch2", "done"}
          /\ Done(c) => NormalResult(c))
  /\ [][\A c \in Slots : \A p \in req'[c].failed \ req[c].failed :
          /\ KeyOf(c, p) \in DOMAIN cache'
          /\ cache'[KeyOf(c, p)] = <<>>
          /\ req'[c].idx = req[c].idx + 1 \/ req'[c].pc = "done"
          /\ req'[c].idx > req[c].idx
          /\ req'[c].pc \in {"sleep1", "fetch1", "done"}]_vars

\* an import whose lookup of one place was rejected has completed, with an
\* event stored and an event skipped
LookupFailureSkipsWitness ==
  \E c \in Slots :
    /\ Done(c)
    /\ req[c].failed # {}
    /\ req[c].response.imported >= 1
    /\ req[c].response.skipped >= 1

----------------------------------------------------------------------------
(* C12 *)

\* the number of the distinct places of the derived events of request c
TotalUnique(c) ==
  Cardinality({DerivedOf(c)[i].place : i \in 1..Len(DerivedOf(c))})

----------------------------------------------------------------------------
(* C15 *)

\* text is a zero-padded date YYYY-MM-DD
IsIsoDate(text) ==
  /\ Len(text) = 10
  /\ \A k \in {1, 2, 3, 4, 6, 7, 9, 10} : text[k] \in Digits
  /\ text[5] = "-"
  /\ text[8] = "-"

\* the documented results of parseDate
Documented == {
  <<<<"1","2"," ","O","c","t"," ","1","9","8","2">>, <<"1","9","8","2","-","1","0","-","1","2">>>>, <<<<"0","1","-","F","e","b","-","1","8","3","7">>, <<"1","8","3","7","-","0","2","-","0","1">>>>,
  <<<<"M","a","y"," ","1","2",","," ","1","8","0","5">>, <<"1","8","0","5","-","0","5","-","1","2">>>>, <<<<"J","a","n"," ","1","9","0","0">>, <<"1","9","0","0","-","0","1","-","0","1">>>>,
  <<<<"1","5","6","7">>, <<"1","5","6","7","-","0","1","-","0","1">>>>, <<<<"A","b","t","."," ","1","7","5","6">>, <<"1","7","5","6","-","0","1","-","0","1">>>>,
  <<<<"U","n","k","n","o","w","n">>, Null>>, <<<<"B","E","T"," ","1","7","0","0"," ","A","N","D"," ","1","7","1","0">>, Null>> }

\* C15: a call of parseDate with a documented text returns the documented
\* result, and whatever the text, a result that is not null is a zero-padded
\* date YYYY-MM-DD
DocumentedDates ==
  date.returned =>
    /\ \A doc \in Documented : DateArg(date) = doc[1] => date.result = doc[2]
    /\ date.result # Null => IsIsoDate(date.result)

----------------------------------------------------------------------------
(* C16 *)

\* C16: a call of parseDate with a qualifier, in any letter case, a space
\* and a date text returns what parseDate returns for the date text alone
QualifierStripped ==
  date.returned /\ date.qualifier # <<>> => date.result = parseDate(date.text)

----------------------------------------------------------------------------
(* C13 *)

\* what parseGedcomFull returns for the text read so far
Returned == Collected(parse.st)

\* the ids of the records of keyword kw in the lines, in source order
RECURSIVE RecordIds(_, _)
RecordIds(lines, kw) ==
  IF lines = <<>> THEN <<>>
  ELSE LET m == LineMatch(Head(lines))
           id == IF m # <<>> /\ ParseInt(m[1]) = 0 THEN RecordMatch(m[2], kw) ELSE <<>>
       IN  id \o RecordIds(Tail(lines), kw)

\* C13: the people that the parser returns are one for each person record
\* of the text, and the families one for each family record, in source
\* order and with the identifier of the record
OnePerRecord ==
  /\ [i \in 1..Len(Returned.people) |-> Returned.people[i].gedcomId]
       = RecordIds(parse.lines, <<"I","N","D","I">>)
  /\ [i \in 1..Len(Returned.families) |-> Returned.families[i].gedcomFamId]
       = RecordIds(parse.lines, <<"F","A","M">>)

----------------------------------------------------------------------------
(* C14 *)

\* the line starts with an integer level followed by a tag
WellFormed(line) ==
  LET d == RunEnd(line, 1, "d")
      e == RunEnd(line, d + 1, "s")
  IN  d >= 1 /\ e >= d + 1 /\ e < Len(line)

\* C14: a malformed line leaves the open record and the open event as they
\* are, and what the parser returns for a text is what it returns for the
\* text without its malformed lines
MalformedSkipped ==
  /\ [](Returned = Collected(ParseLines(ParserInit, SelectSeq(parse.lines, WellFormed))))
  /\ [][\A line \in LineTexts :
          parse'.lines = Append(parse.lines, line) /\ ~WellFormed(line)
            => parse'.st = parse.st]_vars

----------------------------------------------------------------------------
(* C17 *)

\* the individuals the loop has collected, the open one included
Individuals == parse.st.individuals \o parse.st.currentIndi

\* the date used for an event of a kind: its own for birth and death; for
\* burial the death date, else the birth date
DateUsed(indi, kind) ==
  CASE kind = "birth" -> parseDate(indi.birth.date)
    [] kind = "death" -> parseDate(indi.death.date)
    [] kind = "burial" -> IF parseDate(indi.death.date) # Null
                          THEN parseDate(indi.death.date)
                          ELSE parseDate(indi.birth.date)

PlaceOf(indi, kind) ==
  CASE kind = "birth" -> indi.birth.place
    [] kind = "death" -> indi.death.place
    [] kind = "burial" -> indi.burial.place

Kinds == <<"birth", "death", "burial">>

\* the persons and kinds of the events returned, in order
EventKinds == [i \in 1..Len(Returned.events) |-> <<Returned.events[i].name, Returned.events[i].type>>]

\* the date used normalizes and the place is not null and not "?"; with
\* nonEmpty, the place is not the empty text either
Due(indi, kind, nonEmpty) ==
  /\ DateUsed(indi, kind) # Null
  /\ PlaceOf(indi, kind) # Null
  /\ PlaceOf(indi, kind) # <<"?">>
  /\ nonEmpty => PlaceOf(indi, kind) # <<>>

\* the persons and kinds of the events that are due for the named
\* individuals, in order
RECURSIVE DueKinds(_, _, _)
DueKinds(individuals, k, nonEmpty) ==
  IF individuals = <<>> THEN <<>>
  ELSE IF k > 3 THEN DueKinds(Tail(individuals), 1, nonEmpty)
  ELSE (IF FullName(Head(individuals)) # <<>> /\ Due(Head(individuals), Kinds[k], nonEmpty)
        THEN << <<DisplayName(FullName(Head(individuals))), Kinds[k]>> >> ELSE <<>>)
       \o DueKinds(individuals, k + 1, nonEmpty)

\* C17 as stated: for every parsed person and kind, the event exists if and
\* only if the date used for it normalizes to non-null and the place of the
\* kind is non-null and not "?"
EventIffDateAndPlace == EventKinds = DueKinds(Individuals, 1, FALSE)

\* C17, amended: for every parsed person and kind, the event exists if and
\* only if the date used for it normalizes to non-null and the place of the
\* kind is non-null, not the empty text and not "?"
EventIffDateAndNonEmptyPlace == EventKinds = DueKinds(Individuals, 1, TRUE)

\* a person has a burial event dated by the death, and no death event
\* because the death place is "?"
EventIffDateAndNonEmptyPlaceWitness ==
  /\ \E i \in 1..Len(Returned.events) :
       /\ Returned.events[i].type = "burial"
       /\ Returned.events[i].date = <<"1","8","3","7","-","0","2","-","0","1">>
  /\ \E i \in 1..Len(Individuals) :
       /\ Individuals[i].death.place = <<"?">>
       /\ FullName(Individuals[i]) # <<>>

----------------------------------------------------------------------------
(* C18 *)

\* each word with its first letter in upper case and the others in lower case
CaseNormalized(name) ==
  [i \in 1..Len(name) |->
     IF i = 1 \/ name[i - 1] = " " THEN toUpperCase(name[i]) ELSE toLowerCase(name[i])]

\* the individuals with a name part
Named == SelectSeq(Individuals, LAMBDA indi : Truthy(indi.givn) \/ Truthy(indi.surn))

\* C18: the display name of every person with a name part is its name with
\* each word's first letter in upper case and its other letters in lower case
DisplayNameNormalized ==
  /\ Len(Returned.people) = Len(Named)
  /\ \A i \in 1..Len(Named) :
       Returned.people[i].name = CaseNormalized(FullName(Named[i]))

----------------------------------------------------------------------------
(* C19 *)

\* C19: in the tree that a builder returns, no person or member is a node
\* more than once
NodeAtMostOnce ==
  tree.pc = "done" /\ tree.result # "null"
    => \A id \in DOMAIN tree.visits : tree.visits[id] <= 1

----------------------------------------------------------------------------
(* C20 *)

\* C20: a builder never ends without a result, whatever the parent links,
\* cycles included
BuilderReturns == tree.pc # "overflow"

----------------------------------------------------------------------------
(* C21 *)

\* the sum of the counts f[x] for x in ids
RECURSIVE SumOver(_, _)
SumOver(f, ids) ==
  IF ids = {} THEN 0
  ELSE f[MinOf(ids)] + SumOver(f, ids \ {MinOf(ids)})

\* the number of nodes of the tree that was returned
NodeCount(t) == SumOver(t.visits, DOMAIN t.visits)

\* the people of the input that were never marked as having a parent, in
\* the order of the input
Unmarked(t) == SelectSeq(t.people, LAMBDA id : id \notin t.hasParent)

\* C21: when exactly one person was never marked as having a parent, the
\* builder returns the node of that person itself, and the tree has as many
\* nodes as the input has people
SingleRootWhole ==
  tree.pc = "done" /\ Len(Unmarked(tree)) = 1
    => /\ tree.result = "root"
       /\ tree.value = [node |-> Unmarked(tree)[1]]
       /\ NodeCount(tree) = Len(tree.people)

----------------------------------------------------------------------------
(* C22 *)

\* C22: when two or more people were never marked as having a parent, the
\* builder returns a root with a fixed label and no attributes, whose
\* children are those people in the order of the input
RootsInInputOrder ==
  tree.pc = "done" /\ Len(Unmarked(tree)) >= 2
    => /\ tree.result = "virtual"
       /\ tree.value.name \in {"Ancestors", "Family"}
       /\ tree.value.attributes = {}
       /\ tree.value.children = Unmarked(tree)

----------------------------------------------------------------------------
(* C23 *)

\* C23: a builder ends with null exactly when it was given no people, and
\* with a tree node for every other input
NullIffNoPeople ==
  tree.pc \in {"done", "overflow"}
    => \/ tree.people = <<>> /\ tree.result = "null"
       \/ tree.people # <<>> /\ tree.result \in {"root", "virtual"}

----------------------------------------------------------------------------
(* C24 *)

\* the ids that a family or a relationship refers to
RefsOf(builder, link) ==
  IF builder = "gedcom"
  THEN ({link.husbandId, link.wifeId} \cup Range(link.childIds)) \ {0}
  ELSE {link.user_id, link.related_user_id}

\* some link of the input refers to an id that is not of the input's people
HasUnknownRef(t) ==
  \E k \in 1..Len(t.links) : RefsOf(t.builder, t.links[k]) \ Range(t.people) # {}

\* C24: with a reference to an unknown id in the input, the builder ends
\* without an error and every person of the input is in the tree returned
UnknownReferenceDropped ==
  tree.pc \in {"done", "overflow"} /\ HasUnknownRef(tree)
    => /\ tree.pc = "done"
       /\ \A id \in Range(tree.people) : tree.visits[id] >= 1

----------------------------------------------------------------------------
(* C28 *)

\* the relationships that buildFamilyTree has gone through
Processed(t) == SubSeq(t.links, 1, t.i - 1)

\* the edges typed parent from a, between known members, in their order
ParentEdgesFrom(t, a) ==
  SelectSeq(Processed(t), LAMBDA rel : /\ rel.relationship = "parent"
                                       /\ rel.user_id = a
                                       /\ Known(t, rel.related_user_id))

\* C28: in the live tree the children of a member are the targets of the
\* edges typed parent from it between known members, once for each edge,
\* and the members marked as having a parent are the targets of such edges
ParentEdgesOnly ==
  tree.pc \in {"link", "clean", "done", "overflow"} /\ tree.builder = "family"
    => /\ \A a \in DOMAIN tree.children :
            tree.children[a] =
              [k \in 1..Len(ParentEdgesFrom(tree, a)) |-> ParentEdgesFrom(tree, a)[k].related_user_id]
       /\ tree.hasParent =
            {b \in DOMAIN tree.children :
               \E a \in DOMAIN tree.children :
                 \E k \in 1..Len(ParentEdgesFrom(tree, a)) :
                   ParentEdgesFrom(tree, a)[k].related_user_id = b}

\* a relationship with its inverse has been built into a tree, and the
\* child is in it once
ParentEdgesOnlyWitness ==
  /\ tree.pc = "done"
  /\ tree.builder = "family"
  /\ tree.people = <<1, 2>>
  /\ tree.links = <<[relationship |-> "parent", user_id |-> 1, related_user_id |-> 2],
                    [relationship |-> "child", user_id |-> 2, related_user_id |-> 1]>>
  /\ tree.children[1] = <<2>>
  /\ tree.visits[2] = 1

----------------------------------------------------------------------------
(* C30 *)

\* the stored edges typed parent
ParentEdges ==
  {<<r.user_id, r.related_user_id>> : r \in {x \in Range(db.family_relationships) : x.relationship = "parent"}}

\* C30: the stored edges typed parent have no edge from a member to itself
\* and no directed cycle: the members can be ranked so that every such edge
\* goes from a lower to a higher rank
NoParentCycle ==
  \E rank \in [Members -> 1..NumPeople] :
    \A e \in ParentEdges : rank[e[1]] < rank[e[2]]

----------------------------------------------------------------------------
(* C25 *)

\* the lookups that request c has made for place i of its file, in order
LookupsAt(c, i) == SelectSeq(req[c].trace, LAMBDA l : l.at = i)

\* the number of the segments of a text between its commas
Segments(text) == Cardinality({k \in 1..Len(text) : text[k] = ","}) + 1

\* the last two segments of a text
LastTwo(text) ==
  SplitParts(text)[Len(SplitParts(text)) - 1] \o <<",", " ">> \o SplitParts(text)[Len(SplitParts(text))]

\* a lookup that settled without a candidate
NoCandidate(l) == l.settled # <<>> /\ l.settled[1].ok /\ l.settled[1].results = <<>>

\* the outcome of a lookup that has settled: the coordinates of the first
\* candidate, or null
OutcomeOf(l) ==
  IF l.settled[1].ok /\ l.settled[1].results # <<>>
  THEN << [lat |-> ParseFloat(l.settled[1].results[1].lat),
           lon |-> ParseFloat(l.settled[1].results[1].lon)] >>
  ELSE <<>>

\* the lookups L of the place with the plan entry e by a request that stands
\* at pc, at this place or not: none for a place that cleans to null; the
\* first with the cleaned place; a second if and only if the first settled
\* without a candidate and the cleaned place has more than two segments,
\* and then with the last two segments
LookupsAsSpecified(L, e, pc, here) ==
  /\ e.cleaned = Null => L = <<>>
  /\ Len(L) <= 2
  /\ L # <<>> => L[1].query = e.cleaned
  /\ Len(L) = 2 => /\ NoCandidate(L[1])
                   /\ Segments(e.cleaned) > 2
                   /\ L[2].query = LastTwo(e.cleaned)
  /\ L # <<>> /\ NoCandidate(L[1]) /\ Segments(e.cleaned) > 2
       => Len(L) = 2 \/ (here /\ pc = "sleep2")

\* C25: geocode makes no lookup for a place that cleans to null, and for a
\* place that is not in the cache one lookup with the cleaned place and a
\* second, with its last two segments, if and only if the first returned
\* no candidate and the cleaned place has more than two segments; when the
\* place is completed the outcome of its last lookup is in the cache under
\* the cleaned place, and a place completed without a lookup cleans to null
\* or is in the cache
ResolveLookups ==
  /\ [](\A c \in Slots : req[c].pc # "free" =>
          \A i \in 1..Len(Plan[req[c].file]) :
            LookupsAsSpecified(LookupsAt(c, i), Plan[req[c].file][i],
                               req[c].pc, req[c].idx = i))
  /\ [][\A c \in Slots : req[c].pc # "free" /\ req'[c].call = req[c].call =>
          \A i \in req[c].idx..(req'[c].idx - 1) :
            IF LookupsAt(c, i)' # <<>>
            THEN /\ req[c].pc \in {"fetch1", "fetch2"}
                 /\ Plan[req[c].file][i].cleaned \in DOMAIN cache'
                 /\ cache'[Plan[req[c].file][i].cleaned]
                      = OutcomeOf(LookupsAt(c, i)'[Len(LookupsAt(c, i)')])
            ELSE \/ Plan[req[c].file][i].cleaned = Null
                 \/ Plan[req[c].file][i].cleaned \in DOMAIN cache']_vars

\* an import has made a second lookup for a place of three segments, which
\* found the coordinates now in the cache under the cleaned place, and an
\* import of a place that cleans to null has completed without a lookup
ResolveLookupsWitness ==
  /\ \E c \in Slots :
       /\ Done(c)
       /\ \E i \in 1..Len(Plan[req[c].file]) :
            /\ Len(LookupsAt(c, i)) = 2
            /\ OutcomeOf(LookupsAt(c, i)[2]) # <<>>
            /\ cache[Plan[req[c].file][i].cleaned] = OutcomeOf(LookupsAt(c, i)[2])
  /\ \E c \in Slots :
       /\ Done(c)
       /\ Plan[req[c].file] # <<>>
       /\ Plan[req[c].file][1].cleaned = Null
       /\ req[c].trace = <<>>

----------------------------------------------------------------------------
(* C26 *)

\* the level of a line, -1 for a line without a level and a tag
LevelOf(line) ==
  IF LineMatch(line) = <<>> THEN -1 ELSE ParseInt(LineMatch(line)[1])

\* what follows the level of a line
RestOf(line) == LineMatch(line)[2]

\* the line has the level and the tag, with a value
IsTagged(line, level, tag) ==
  LevelOf(line) = level /\ TagValue(RestOf(line), tag) # <<>>

\* the kind of the record that the lines end in: that of their last line of
\* level 0
RECURSIVE RecordKind(_)
RecordKind(lines) ==
  IF lines = <<>> THEN "none"
  ELSE IF LevelOf(lines[Len(lines)]) = 0
    THEN IF RecordMatch(RestOf(lines[Len(lines)]), <<"I", "N", "D", "I">>) # <<>> THEN "person"
         ELSE IF RecordMatch(RestOf(lines[Len(lines)]), <<"F", "A", "M">>) # <<>> THEN "family"
         ELSE "none"
  ELSE RecordKind(SubSeq(lines, 1, Len(lines) - 1))

\* the subcontext that a line of level 1 with the rest rest opens
OpenedBy(rest) ==
  IF rest = <<"B", "I", "R", "T">> THEN "birth"
  ELSE IF rest = <<"D", "E", "A", "T">> THEN "death"
  ELSE IF rest = <<"B", "U", "R", "I">> THEN "burial"
  ELSE IF Len(rest) >= 5 /\ SubSeq(rest, 1, 4) = <<"N", "A", "M", "E">> /\ IsWs(rest[5])
    THEN "name"
  ELSE "none"

\* the subcontext after the lines: that of the most recent line of level 0
\* or 1, which is none for a record line, for a line outside a person record
\* and for every tag but BIRT, DEAT, BURI and NAME
RECURSIVE Subcontext(_)
Subcontext(lines) ==
  IF lines = <<>> THEN "none"
  ELSE IF LevelOf(lines[Len(lines)]) = 0 THEN "none"
  ELSE IF LevelOf(lines[Len(lines)]) = 1
    THEN IF RecordKind(lines) = "person" THEN OpenedBy(RestOf(lines[Len(lines)])) ELSE "none"
  ELSE Subcontext(SubSeq(lines, 1, Len(lines) - 1))

\* what the line may change in the open person record old, which becomes
\* new, in the subcontext ctx: date and place of birth and of death under
\* BIRT and DEAT by a DATE and a PLAC line of level 2, the place of burial
\* under BURI by a PLAC line, and the name parts under NAME by GIVN and SURN
OnlyInContext(old, new, ctx, line) ==
  /\ new.gedcomId = old.gedcomId
  /\ new.birth.date # old.birth.date => ctx = "birth" /\ IsTagged(line, 2, <<"D", "A", "T", "E">>)
  /\ new.birth.place # old.birth.place => ctx = "birth" /\ IsTagged(line, 2, <<"P", "L", "A", "C">>)
  /\ new.death.date # old.death.date => ctx = "death" /\ IsTagged(line, 2, <<"D", "A", "T", "E">>)
  /\ new.death.place # old.death.place => ctx = "death" /\ IsTagged(line, 2, <<"P", "L", "A", "C">>)
  /\ new.burial.place # old.burial.place => ctx = "burial" /\ IsTagged(line, 2, <<"P", "L", "A", "C">>)
  /\ new.givn # old.givn => ctx = "name" /\ IsTagged(line, 2, <<"G", "I", "V", "N">>)
  /\ new.surn # old.surn => ctx = "name" /\ IsTagged(line, 2, <<"S", "U", "R", "N">>)

\* the step from the parser's variables st to st2 by a line, after lines
ContextRespected(st, st2, lines, line) ==
  /\ SubSeq(st2.individuals, 1, Len(st.individuals)) = st.individuals
  /\ LevelOf(line) = 0 =>
       /\ st2.individuals = st.individuals \o st.currentIndi
       /\ st2.currentIndi # <<>> => st2.currentIndi[1] = NewIndi(st2.currentIndi[1].gedcomId)
  /\ LevelOf(line) # 0 =>
       /\ st2.individuals = st.individuals
       /\ Len(st2.currentIndi) = Len(st.currentIndi)
       /\ st.currentIndi # <<>> =>
            OnlyInContext(st.currentIndi[1], st2.currentIndi[1], Subcontext(lines), line)
  /\ LevelOf(line) = 2 /\ Subcontext(lines) = "none" => st2 = st

\* C26: the open event of the parser is the subcontext of the lines read,
\* which is none after a record line and after every level-1 line but BIRT,
\* DEAT, BURI and NAME; a line changes a field of the open person record
\* only as its subcontext allows, assigns nothing in the subcontext none,
\* and changes no record that is closed
SubcontextConfines ==
  /\ [](parse.st.currentEvent = Subcontext(parse.lines))
  /\ [][\A line \in LineTexts :
          parse'.lines = Append(parse.lines, line)
            => ContextRespected(parse.st, parse'.st, parse.lines, line)]_vars

\* after BIRT, a place, DEAT and a date, the place is that of the birth and
\* the date that of the death, and the birth has no date
SubcontextConfinesWitness ==
  /\ parse.left = 0
  /\ parse.st.currentIndi # <<>>
  /\ parse.st.currentEvent = "death"
  /\ parse.st.currentIndi[1].birth.place # Null
  /\ parse.st.currentIndi[1].birth.date = Null
  /\ parse.st.currentIndi[1].death.date # Null
  /\ parse.st.currentIndi[1].death.place = Null

----------------------------------------------------------------------------
(* C27 *)

\* TagXref of the rest of a line of level 1, <<>> for another line
XrefOf(line, tag) ==
  IF LevelOf(line) = 1 THEN TagXref(RestOf(line), tag) ELSE <<>>

\* the value that a line of level 2 gives for a tag, as the parser stores
\* it: trimmed; <<>> for another line
ValueOf(line, tag) ==
  IF IsTagged(line, 2, tag) THEN <<Trim(TagValue(RestOf(line), tag)[1])>> ELSE <<>>

\* the open person record new after an occurrence of a sub-field in line
\* holds the value of that occurrence, in the subcontext ctx
PersonReplaced(new, ctx, line) ==
  /\ ctx = "birth" /\ ValueOf(line, <<"D", "A", "T", "E">>) # <<>>
       => new.birth.date = ValueOf(line, <<"D", "A", "T", "E">>)[1]
  /\ ctx = "birth" /\ ValueOf(line, <<"P", "L", "A", "C">>) # <<>>
       => new.birth.place = ValueOf(line, <<"P", "L", "A", "C">>)[1]
  /\ ctx = "death" /\ ValueOf(line, <<"D", "A", "T", "E">>) # <<>>
       => new.death.date = ValueOf(line, <<"D", "A", "T", "E">>)[1]
  /\ ctx = "death" /\ ValueOf(line, <<"P", "L", "A", "C">>) # <<>>
       => new.death.place = ValueOf(line, <<"P", "L", "A", "C">>)[1]
  /\ ctx = "burial" /\ ValueOf(line, <<"P", "L", "A", "C">>) # <<>>
       => new.burial.place = ValueOf(line, <<"P", "L", "A", "C">>)[1]
  /\ ctx = "name" /\ ValueOf(line, <<"G", "I", "V", "N">>) # <<>>
       => new.givn = ValueOf(line, <<"G", "I", "V", "N">>)[1]
  /\ ctx = "name" /\ ValueOf(line, <<"S", "U", "R", "N">>) # <<>>
       => new.surn = Trim(StripParens(TagValue(RestOf(line), <<"S", "U", "R", "N">>)[1]))
  /\ LevelOf(line) = 1 /\ SexMatch(RestOf(line)) # <<>>
       => new.sex = <<toUpperCase(SexMatch(RestOf(line))[1])>>

\* the open family record old becomes new by a line: husband and wife are
\* replaced by an occurrence and else kept, and a child is added at the end
FamilyReplaced(old, new, line) ==
  /\ new.husbandId = IF XrefOf(line, <<"H", "U", "S", "B">>) # <<>>
                     THEN XrefOf(line, <<"H", "U", "S", "B">>)[1] ELSE old.husbandId
  /\ new.wifeId = IF XrefOf(line, <<"W", "I", "F", "E">>) # <<>>
                  THEN XrefOf(line, <<"W", "I", "F", "E">>)[1] ELSE old.wifeId
  /\ new.childIds = IF XrefOf(line, <<"C", "H", "I", "L">>) # <<>>
                    THEN Append(old.childIds, XrefOf(line, <<"C", "H", "I", "L">>)[1])
                    ELSE old.childIds

\* C27: within a record an occurrence of a scalar sub-field replaces its
\* value, so that the value is that of the last occurrence, and a child
\* reference is added to the child list, which holds all of them in order
LastOccurrenceWins ==
  [][\A line \in LineTexts :
       parse'.lines = Append(parse.lines, line) /\ LevelOf(line) > 0
         => /\ parse.st.currentIndi # <<>>
                 => PersonReplaced(parse'.st.currentIndi[1], Subcontext(parse.lines), line)
            /\ parse.st.currentFam # <<>>
                 => /\ parse'.st.currentFam # <<>>
                    /\ FamilyReplaced(parse.st.currentFam[1], parse'.st.currentFam[1], line)]_vars

\* a family record in which the husband was given twice and two children
\* were listed
LastOccurrenceWinsWitness ==
  /\ parse.st.currentFam # <<>>
  /\ Len(parse.st.currentFam[1].childIds) = 2
  /\ parse.st.currentFam[1].childIds[1] # parse.st.currentFam[1].childIds[2]
  /\ Len(SelectSeq(parse.lines, LAMBDA l : XrefOf(l, <<"H", "U", "S", "B">>) # <<>>)) = 2
  /\ XrefOf(parse.lines[Len(parse.lines)], <<"H", "U", "S", "B">>)
       = <<parse.st.currentFam[1].husbandId>>

----------------------------------------------------------------------------
(* C29 *)

\* the stored child links of the families of owner u
ChildLinksOf(d, u) ==
  SelectSeq(d.gedcom_children, LAMBDA r :
    \E k \in 1..Len(d.gedcom_families) :
      d.gedcom_families[k].user_id = u /\ d.gedcom_families[k].id = r.gedcom_family_id)

\* all that is stored for owner u: people, families, child links and events
StoredOf(d, u) ==
  <<PeopleOf(d, u), FamiliesOf(d, u), ChildLinksOf(d, u),
    SelectSeq(d.events, LAMBDA r : r.user_id = u)>>

\* C29: a step of an import or a clear of imported data for one owner leaves
\* what is stored for every other owner as it is, and leaves the events of
\* every owner that were not imported as they are
OtherOwnersUntouched ==
  [][hist'.last.op \in {"import", "persist", "clear"} /\ db' # db
       => \A u \in Owners :
            /\ u # hist'.last.user => StoredOf(db', u) = StoredOf(db, u)
            /\ EventsOfUser(db', u, "manual") = EventsOfUser(db, u, "manual")]_vars

\* owner 1 has cleared the imported data and still has the event made by
\* hand, while owner 2 has the people, families, child links and events of
\* an import
OtherOwnersUntouchedWitness ==
  /\ hist.last = [op |-> "clear", user |-> 1]
  /\ hist.started = 2
  /\ db.seq.gedcom_people > Len(db.gedcom_people)
  /\ EventsOfUser(db, 1, "manual") # <<>>
  /\ EventsOfUser(db, 1, "gedcom") = <<>>
  /\ PeopleOf(db, 2) # <<>>
  /\ ChildLinksOf(db, 2) # <<>>
  /\ EventsOfUser(db, 2, "gedcom") # <<>>

============================================================================
